---- MODULE Spec2Model ----
(***************************************************************************)
(* A model of the courier provider abstraction layer: the CourierFactory   *)
(* registry and instance cache (core/couriers/factory.py) and the          *)
(* MockCourier simulation adapter with its in-memory shipment store        *)
(* (core/couriers/mock.py), with the shared CourierBase rules              *)
(* (core/couriers/base.py).                                                *)
(*                                                                         *)
(* Python strings that the code converts (provider identifiers, upper())   *)
(* are sequences of one-character strings; dicts whose order matters are   *)
(* sequences of [key, val] records in insertion order; config dicts are    *)
(* functions from key names to values; Optional[x] is <<>> or <<x>>.       *)
(***************************************************************************)
EXTENDS Integers, Sequences, FiniteSets, TLC

(***************************************************************************)
(* Bounds of the model.                                                    *)
(***************************************************************************)
NThreads == 2
MaxInstances == 2
\* creates, cancels and clock ticks in one run
MaxWork == 4
\* stands for the 65536 values of uuid4().hex[:4]
NHex == 2

Threads == 1..NThreads
\* the sequential program: one caller
SeqThreads == {1}

VARIABLES
    registry,    \* CourierFactory._registry: ordered dict key -> class
    instances,   \* CourierFactory._instances: ordered dict key -> instance
    settings,    \* django.conf.settings, read by _get_default_config
    nextId,      \* identity of the next object constructed (id(instance))
    fpc,         \* per caller: position inside get_courier
    fcall,       \* per caller: the arguments and locals of the running call
    flast,       \* per caller: the last completed factory call and its outcome
    best,        \* the last get_best_courier call and its outcome
    clock,       \* datetime.now(), in seconds
    objs,        \* the heap: the shipment dicts created so far
    shipments,   \* MockCourier._shipments: waybill -> shipment dict (index in objs)
    mpc,         \* per caller: position inside a MockCourier operation
    mcall,       \* per caller: the arguments and locals of the running operation
    mlast,       \* per caller: the last completed MockCourier call and its response
    cancelled,   \* the <<waybill, reason>> of every cancel of a stored shipment
    pure,        \* the last application of map_status or validate_shipment_request
    courier,     \* the courier object under construction or in use by the caller
    alast,       \* the last completed call on the courier object and its outcome
    http,        \* the HTTPClient request in progress and its retry state
    db,          \* the Shipment table with its tracking events: waybill -> row
    svc,         \* the last completed ShipmentService call and its outcome
    broker       \* SimpleMessageBroker: its queue, its worker and what has run

fvars == <<registry, instances, settings, nextId, fpc, fcall, flast>>

mvars == <<clock, objs, shipments, mpc, mcall, mlast, cancelled>>

avars == <<pure, courier, alast, http>>

svars == <<db, svc, broker>>

\* what the factory's operations leave alone
nonfactory == <<best, mvars, avars, svars>>
\* what the simulation adapter's operations leave alone
nonmock == <<fvars, best, avars, svars>>

vars == <<fvars, best, mvars, avars, svars>>

(***************************************************************************)
(* str.upper() on the identifiers the model uses.                          *)
(***************************************************************************)
LowerLetters == <<"a","b","c","d","e","f","g","h","i","j","k","l","m",
                  "n","o","p","q","r","s","t","u","v","w","x","y","z">>
UpperLetters == <<"A","B","C","D","E","F","G","H","I","J","K","L","M",
                  "N","O","P","Q","R","S","T","U","V","W","X","Y","Z">>

UpperChar(c) ==
    IF \E i \in DOMAIN LowerLetters : LowerLetters[i] = c
    THEN UpperLetters[CHOOSE i \in DOMAIN LowerLetters : LowerLetters[i] = c]
    ELSE c

\* the identifier used as it was passed
Upper_AsPassed(s) == s

Upper(s) == [i \in DOMAIN s |-> UpperChar(s[i])]

(***************************************************************************)
(* CourierProvider enum values (core/enums.py).                            *)
(***************************************************************************)
SMSA == <<"S","M","S","A">>
ARAMEX == <<"A","R","A","M","E","X">>
MOCK == <<"M","O","C","K">>

\* identifiers callers pass: the two built-in providers, one that is only
\* registered at run time (in lower case), and one that never is
UNKNOWN_PROVIDER == <<"U","N","K","N","O","W","N">>
aramex == <<"a","r","a","m","e","x">>
ProviderInputs == {SMSA, MOCK, aramex, UNKNOWN_PROVIDER}
\* identifiers register() is called with
RegisterInputs == {aramex}

Classes == {"SMSACourier", "MockCourier"}

(***************************************************************************)
(* Python dict with insertion order.                                       *)
(***************************************************************************)
DictKeys(d) == [i \in DOMAIN d |-> d[i].key]
DictHas(d, k) == \E i \in DOMAIN d : d[i].key = k
DictGet(d, k) == d[CHOOSE i \in DOMAIN d : d[i].key = k].val
DictSet(d, k, v) ==
    IF DictHas(d, k)
    THEN [i \in DOMAIN d |-> IF d[i].key = k THEN [key |-> k, val |-> v] ELSE d[i]]
    ELSE Append(d, [key |-> k, val |-> v])

(***************************************************************************)
(* Config dicts: functions from key names to values.  cfg.get(k) is None   *)
(* for a missing key; None and "" are both falsy.                          *)
(***************************************************************************)
EmptyDict == <<>>
Truthy(d) == DOMAIN d # {}
CfgMissing(d, k) == k \notin DOMAIN d \/ d[k] = ""

NoConfig == <<>>
Some(c) == <<c>>

CfgFull == [api_key |-> "key-1", base_url |-> "https://courier.test"]
CfgNoKey == [base_url |-> "https://courier.test"]
ConfigInputs == {NoConfig, Some(CfgFull), Some(CfgNoKey), Some(EmptyDict)}

\* getattr(settings, name, default)
GetAttr(s, name, default) == IF name \in DOMAIN s THEN s[name] ELSE default

\* the deployments' settings: nothing set, or an empty SMSA_API_KEY
SettingsSet == {EmptyDict, [SMSA_API_KEY |-> ""]}

_get_default_config(provider, s) ==
    IF provider = SMSA
    THEN [api_key |-> GetAttr(s, "SMSA_API_KEY", "mock-key"),
          base_url |-> GetAttr(s, "SMSA_BASE_URL", "https://api.smsa.com"),
          mock_mode |-> GetAttr(s, "SMSA_MOCK_MODE", TRUE)]
    ELSE IF provider = MOCK
    THEN [api_key |-> "mock-key", base_url |-> "https://mock.example.com",
          mock_mode |-> TRUE]
    ELSE [api_key |-> "default", base_url |-> "https://api.example.com",
          mock_mode |-> TRUE]

(***************************************************************************)
(* Errors and results.                                                     *)
(***************************************************************************)
NoErr == [type |-> "", msg |-> "", provider |-> <<>>, available |-> <<>>]
ValueError(msg) == [type |-> "ValueError", msg |-> msg, provider |-> <<>>,
                    available |-> <<>>]

NoInst == [id |-> 0, cls |-> "", config |-> EmptyDict, is_initialized |-> FALSE]

Return(inst) == [outcome |-> "return", inst |-> inst, err |-> NoErr]
Raise(err) == [outcome |-> "raise", inst |-> NoInst, err |-> err]

(***************************************************************************)
(* CourierBase.__init__ and _validate_config, with MockCourier's override. *)
(***************************************************************************)
\* a validation that asks for the API key only
_validate_config_KeyOnly(cls, config) ==
    IF cls = "MockCourier" THEN NoErr
    ELSE IF CfgMissing(config, "api_key") THEN ValueError("API key is required")
    ELSE NoErr

_validate_config(cls, config) ==
    IF cls = "MockCourier" THEN NoErr
    ELSE IF CfgMissing(config, "api_key") THEN ValueError("API key is required")
    ELSE IF CfgMissing(config, "base_url") THEN ValueError("Base URL is required")
    ELSE NoErr

Construct(cls, config, id) ==
    LET e == _validate_config(cls, config)
    IN  IF e # NoErr THEN Raise(e)
        ELSE Return([id |-> id, cls |-> cls, config |-> config,
                     is_initialized |-> TRUE])

get_supported_features(cls) ==
    IF cls = "MockCourier"
    THEN {"cancellation", "cod", "insurance", "signature_required", "express",
          "tracking"}
    ELSE {"cancellation", "cod", "insurance", "tracking"}

supports_feature(cls, feature) == feature \in get_supported_features(cls)

FeatureInputs == {"cancellation", "express"}

(***************************************************************************)
(* CourierFactory.get_courier, decision by decision.                       *)
(***************************************************************************)
CacheHit_Never(inst, key, config) == FALSE

\* line 54: cached and no new config provided
CacheHit(inst, key, config) == DictHas(inst, key) /\ config = NoConfig

UnknownProviderError_NoList(provider, reg) ==
    [type |-> "ValueError", msg |-> "Unknown courier provider",
     provider |-> provider, available |-> <<>>]

\* lines 58-59
UnknownProviderError(provider, reg) ==
    [type |-> "ValueError", msg |-> "Unknown courier provider",
     provider |-> provider, available |-> DictKeys(reg)]

EffectiveConfig_Supplied(key, config, s) ==
    IF config # NoConfig THEN config[1] ELSE _get_default_config(key, s)

\* line 62: config or cls._get_default_config(provider_upper)
EffectiveConfig(key, config, s) ==
    IF config # NoConfig /\ Truthy(config[1]) THEN config[1]
    ELSE _get_default_config(key, s)

CacheInsert_KeepOld(inst, key, instance) ==
    IF DictHas(inst, key) THEN inst ELSE DictSet(inst, key, instance)

\* line 65
CacheInsert(inst, key, instance) == DictSet(inst, key, instance)

FactorySupportsFeature_Propagate(res, feature) ==
    IF res.outcome = "raise" THEN [outcome |-> "raise", flag |-> FALSE]
    ELSE [outcome |-> "return", flag |-> supports_feature(res.inst.cls, feature)]

\* lines 135-139: any exception of the resolution becomes False
FactorySupportsFeature(res, feature) ==
    IF res.outcome = "raise" THEN [outcome |-> "return", flag |-> FALSE]
    ELSE [outcome |-> "return", flag |-> supports_feature(res.inst.cls, feature)]

(***************************************************************************)
(* History records of completed calls.                                     *)
(***************************************************************************)
NoCall == [op |-> "none", provider |-> <<>>, config |-> NoConfig, feature |-> "",
           cls |-> "", outcome |-> "none", inst |-> NoInst, flag |-> FALSE,
           err |-> NoErr, resolved |-> "none", constructed |-> FALSE]

IdleCall == [op |-> "none", provider |-> <<>>, config |-> NoConfig, feature |-> "",
             cls |-> "", inst |-> NoInst, constructed |-> FALSE]

StartCall(op, provider, config, feature) ==
    [op |-> op, provider |-> provider, config |-> config, feature |-> feature,
     cls |-> "", inst |-> NoInst, constructed |-> FALSE]

\* the record of call c completing with result res of get_courier
Completed(c, res) ==
    LET sf == FactorySupportsFeature(res, c.feature)
    IN  [op |-> c.op, provider |-> c.provider, config |-> c.config,
         feature |-> c.feature, cls |-> c.cls,
         outcome |-> IF c.op = "supports_feature" THEN sf.outcome ELSE res.outcome,
         inst |-> res.inst,
         flag |-> IF c.op = "supports_feature" THEN sf.flag ELSE FALSE,
         err |-> IF c.op = "supports_feature" THEN NoErr ELSE res.err,
         resolved |-> res.outcome,
         constructed |-> c.constructed]

Finish(t, c, res) ==
    /\ fpc' = [fpc EXCEPT ![t] = "idle"]
    /\ fcall' = [fcall EXCEPT ![t] = IdleCall]
    /\ flast' = [flast EXCEPT ![t] = Completed(c, res)]

NoBest == [op |-> "none", origin |-> "", destination |-> "", weight |-> 0,
           priority |-> "", outcome |-> "none", value |-> <<>>, err |-> NoErr]

\* room to construct one more instance within the bound
Room(T) == nextId + Cardinality({u \in T : fpc[u] = "construct"}) <= MaxInstances

(***************************************************************************)
(* Actions of the factory.                                                 *)
(***************************************************************************)
\* CourierFactory.register (lines 29-33)
Register(t, provider, cls) ==
    /\ fpc[t] = "idle"
    /\ registry' = DictSet(registry, Upper(provider), cls)
    /\ flast' = [flast EXCEPT ![t] =
            [NoCall EXCEPT !.op = "register", !.provider = provider, !.cls = cls,
                           !.outcome = "return"]]
    /\ UNCHANGED <<instances, settings, nextId, fpc, fcall, nonfactory>>

\* get_courier lines 51-55: the cached instance is returned
GetCached(t, op, provider, config, feature) ==
    /\ fpc[t] = "idle"
    /\ CacheHit(instances, Upper(provider), config)
    /\ Finish(t, StartCall(op, provider, config, feature),
              Return(DictGet(instances, Upper(provider))))
    /\ UNCHANGED <<registry, instances, settings, nextId, nonfactory>>

\* get_courier lines 57-59: unknown provider
GetUnknown(t, op, provider, config, feature) ==
    /\ fpc[t] = "idle"
    /\ ~CacheHit(instances, Upper(provider), config)
    /\ ~DictHas(registry, Upper(provider))
    /\ Finish(t, StartCall(op, provider, config, feature),
              Raise(UnknownProviderError(provider, registry)))
    /\ UNCHANGED <<registry, instances, settings, nextId, nonfactory>>

\* get_courier line 61: the class is looked up
GetResolve(t, T, op, provider, config, feature) ==
    /\ fpc[t] = "idle"
    /\ Room(T)
    /\ ~CacheHit(instances, Upper(provider), config)
    /\ DictHas(registry, Upper(provider))
    /\ fpc' = [fpc EXCEPT ![t] = "construct"]
    /\ fcall' = [fcall EXCEPT ![t] =
            [StartCall(op, provider, config, feature)
                EXCEPT !.cls = DictGet(registry, Upper(provider))]]
    /\ UNCHANGED <<registry, instances, settings, nextId, flast, nonfactory>>

\* get_courier lines 62-64: the constructor raises
ConstructFail(t) ==
    LET c == fcall[t]
        key == Upper(c.provider)
        res == Construct(c.cls, EffectiveConfig(key, c.config, settings), nextId)
    IN  /\ fpc[t] = "construct"
        /\ res.outcome = "raise"
        /\ Finish(t, c, res)
        /\ UNCHANGED <<registry, instances, settings, nextId, nonfactory>>

\* get_courier lines 62-64: the instance is constructed
ConstructOk(t) ==
    LET c == fcall[t]
        key == Upper(c.provider)
        res == Construct(c.cls, EffectiveConfig(key, c.config, settings), nextId)
    IN  /\ fpc[t] = "construct"
        /\ res.outcome = "return"
        /\ nextId' = nextId + 1
        /\ fpc' = [fpc EXCEPT ![t] = "insert"]
        /\ fcall' = [fcall EXCEPT ![t] = [c EXCEPT !.inst = res.inst,
                                                    !.constructed = TRUE]]
        /\ UNCHANGED <<registry, instances, settings, flast, nonfactory>>

\* get_courier lines 65-68: the cache entry is set and the instance returned
Insert(t) ==
    LET c == fcall[t]
    IN  /\ fpc[t] = "insert"
        /\ instances' = CacheInsert(instances, Upper(c.provider), c.inst)
        /\ Finish(t, c, Return(c.inst))
        /\ UNCHANGED <<registry, settings, nextId, nonfactory>>

(***************************************************************************)
(* CourierFactory.get_best_courier (lines 95-130): a function of its       *)
(* arguments and the registry.                                             *)
(***************************************************************************)
BestResult(outcome, value, err) == [outcome |-> outcome, value |-> value, err |-> err]

get_best_courier_MockFirst(reg, origin, destination, weight, priority) ==
    IF DictHas(reg, MOCK) THEN BestResult("return", MOCK, NoErr)
    ELSE IF origin = "SA" /\ destination = "SA" /\ DictHas(reg, SMSA)
    THEN BestResult("return", SMSA, NoErr)
    ELSE IF DictKeys(reg) # <<>> THEN BestResult("return", DictKeys(reg)[1], NoErr)
    ELSE BestResult("raise", <<>>, ValueError("No courier providers available"))

get_best_courier(reg, origin, destination, weight, priority) ==
    IF origin = "SA" /\ destination = "SA" /\ DictHas(reg, SMSA)
    THEN BestResult("return", SMSA, NoErr)
    ELSE IF DictHas(reg, MOCK) THEN BestResult("return", MOCK, NoErr)
    ELSE IF DictKeys(reg) # <<>> THEN BestResult("return", DictKeys(reg)[1], NoErr)
    ELSE BestResult("raise", <<>>, ValueError("No courier providers available"))

(***************************************************************************)
(* The sequential factory: one caller, every operation and input.          *)
(***************************************************************************)
FSeqRegister ==
    \E p \in RegisterInputs, k \in Classes : Register(1, p, k)
FSeqGetCached ==
    \/ \E p \in ProviderInputs, c \in ConfigInputs :
            GetCached(1, "get_courier", p, c, "")
    \/ \E p \in ProviderInputs, f \in FeatureInputs :
            GetCached(1, "supports_feature", p, NoConfig, f)
FSeqGetUnknown ==
    \/ \E p \in ProviderInputs, c \in ConfigInputs :
            GetUnknown(1, "get_courier", p, c, "")
    \/ \E p \in ProviderInputs, f \in FeatureInputs :
            GetUnknown(1, "supports_feature", p, NoConfig, f)
FSeqGetResolve ==
    \/ \E p \in ProviderInputs, c \in ConfigInputs :
            GetResolve(1, SeqThreads, "get_courier", p, c, "")
    \/ \E p \in ProviderInputs, f \in FeatureInputs :
            GetResolve(1, SeqThreads, "supports_feature", p, NoConfig, f)
FSeqConstructFail == ConstructFail(1)
FSeqConstructOk == ConstructOk(1)
FSeqInsert == Insert(1)

FactoryNext ==
    \/ FSeqRegister
    \/ FSeqGetCached
    \/ FSeqGetUnknown
    \/ FSeqGetResolve
    \/ FSeqConstructFail
    \/ FSeqConstructOk
    \/ FSeqInsert

(***************************************************************************)
(* Concurrent callers of get_courier(id) with no config override, on the   *)
(* built-in providers.  The code takes no lock, so callers interleave      *)
(* between the cache check, the construction and the cache insert.         *)
(***************************************************************************)
RaceProviders == {SMSA, MOCK}

FRaceGetCached ==
    \E t \in Threads, p \in RaceProviders : GetCached(t, "get_courier", p, NoConfig, "")
FRaceGetResolve ==
    \E t \in Threads, p \in RaceProviders :
        GetResolve(t, Threads, "get_courier", p, NoConfig, "")
FRaceConstructFail == \E t \in Threads : ConstructFail(t)
FRaceConstructOk == \E t \in Threads : ConstructOk(t)
FRaceInsert == \E t \in Threads : Insert(t)

FactoryRaceNext ==
    \/ FRaceGetCached
    \/ FRaceGetResolve
    \/ FRaceConstructFail
    \/ FRaceConstructOk
    \/ FRaceInsert

(***************************************************************************)
(* get_best_courier applied to every registry of at most MaxReg providers. *)
(* The registry is a class attribute that code outside the factory can     *)
(* replace, so the function is checked on registries the factory's own     *)
(* operations do not produce (an empty one, one without MOCK) as well.     *)
(***************************************************************************)
MaxReg == 3

ClassOf(k) == IF k = SMSA THEN "SMSACourier" ELSE "MockCourier"
KeySeqs == UNION {[1..n -> {SMSA, MOCK, ARAMEX}] : n \in 0..MaxReg}
RegistryInputs ==
    {[i \in DOMAIN ks |-> [key |-> ks[i], val |-> ClassOf(ks[i])]] :
        ks \in {q \in KeySeqs : \A i, j \in DOMAIN q : i # j => q[i] # q[j]}}

CountryInputs == {"SA", "US", "UK"}
WeightInputs == {5, 50}
PriorityInputs == {"STANDARD", "EXPRESS"}

BestCall(origin, destination, weight, priority) ==
    LET r == get_best_courier(registry, origin, destination, weight, priority)
    IN  /\ best' = [op |-> "get_best_courier", origin |-> origin,
                    destination |-> destination, weight |-> weight,
                    priority |-> priority, outcome |-> r.outcome,
                    value |-> r.value, err |-> r.err]
        /\ UNCHANGED <<fvars, mvars, avars, svars>>

BestNext ==
    \E o \in CountryInputs, d \in CountryInputs, w \in WeightInputs,
       p \in PriorityInputs : BestCall(o, d, w, p)

(***************************************************************************)
(* Requests and the shared validation rules of CourierBase.                *)
(***************************************************************************)
\* the request of core/tests.py MockCourierTests.setUp
ValidRequest ==
    [reference_number |-> "REF123",
     sender |-> [name |-> "Sender", address_line1 |-> "Line 1", city |-> "Riyadh",
                 country |-> "SA", phone |-> "123"],
     recipient |-> [name |-> "Recipient", address_line1 |-> "Line 1",
                    city |-> "Jeddah", country |-> "SA", phone |-> "456"],
     package |-> [weight |-> 10, description |-> "Test Package"]]

NoRequest ==
    [reference_number |-> "",
     sender |-> [name |-> "", address_line1 |-> "", city |-> "", country |-> "",
                 phone |-> ""],
     recipient |-> [name |-> "", address_line1 |-> "", city |-> "", country |-> "",
                    phone |-> ""],
     package |-> [weight |-> 0, description |-> ""]]

\* errors.append(msg) when the condition holds
AppendIf(errors, cond, msg) == IF cond THEN Append(errors, msg) ELSE errors

\* CourierBase.validate_shipment_request (base.py lines 96-133)
validate_shipment_request(request) ==
    LET e1 == AppendIf(<<>>, request.reference_number = "",
                       "Reference number is required")
        e2 == AppendIf(e1, request.sender.name = "", "Sender name is required")
        e3 == AppendIf(e2, request.sender.address_line1 = "",
                       "Sender address is required")
        e4 == AppendIf(e3, request.sender.city = "", "Sender city is required")
        e5 == AppendIf(e4, request.sender.country = "", "Sender country is required")
        e6 == AppendIf(e5, request.sender.phone = "", "Sender phone is required")
        e7 == AppendIf(e6, request.recipient.name = "", "Recipient name is required")
        e8 == AppendIf(e7, request.recipient.address_line1 = "",
                       "Recipient address is required")
        e9 == AppendIf(e8, request.recipient.city = "", "Recipient city is required")
        e10 == AppendIf(e9, request.recipient.country = "",
                        "Recipient country is required")
        e11 == AppendIf(e10, request.recipient.phone = "",
                        "Recipient phone is required")
        e12 == AppendIf(e11, request.package.weight <= 0,
                        "Package weight must be greater than 0")
        e13 == AppendIf(e12, request.package.description = "",
                        "Package description is required")
    IN  e13

MockRequests == {ValidRequest, [ValidRequest EXCEPT !.package.weight = 0]}

(***************************************************************************)
(* MockCourier: waybills, stored shipments and responses.                  *)
(***************************************************************************)
\* line 63: "MOCK" + the second of the clock + four hex digits of a uuid4
MakeWaybill(now, hex) == <<"MOCK", now, hex>>

\* a waybill the adapter has not issued
UnknownWaybills == {<<"AWB", 0, 0>>}
ReasonInputs == {"", "Customer request"}

NewShipment_Pending(request, now) ==
    [request |-> request, status |-> "PENDING", created_at |-> now,
     events |-> <<[timestamp |-> now, status |-> "PENDING",
                   description |-> <<"Shipment created successfully">>,
                   location |-> request.sender.city]>>]

\* lines 66-78: the dict stored for a new shipment
NewShipment(request, now) ==
    [request |-> request, status |-> "CREATED", created_at |-> now,
     events |-> <<[timestamp |-> now, status |-> "CREATED",
                   description |-> <<"Shipment created successfully">>,
                   location |-> request.sender.city]>>]

CancelledEvent_NoReason(now, reason) ==
    [timestamp |-> now, status |-> "CANCELLED",
     description |-> <<"Shipment cancelled.">>, location |-> ""]

\* lines 161-166: the event cancel_shipment appends
CancelledEvent(now, reason) ==
    [timestamp |-> now, status |-> "CANCELLED",
     description |-> <<"Shipment cancelled. Reason: ",
                       IF reason = "" THEN "No reason provided" ELSE reason>>,
     location |-> ""]

\* lines 136-145: a stored event as a TrackingEvent
TrackingEvent(evt) ==
    [timestamp |-> evt.timestamp, status |-> evt.status, raw_status |-> evt.status,
     description |-> evt.description, location |-> evt.location]

TrackingEvents(events) == [i \in DOMAIN events |-> TrackingEvent(events[i])]

\* a made-up history that stops at the creation
SyntheticEvents_CreatedOnly(now) ==
    <<[timestamp |-> now - 7200, status |-> "CREATED", raw_status |-> "CREATED",
       description |-> <<"Shipment created">>, location |-> "Riyadh"]>>

\* lines 110-132: the history made up for a waybill that is not stored
SyntheticEvents(now) ==
    <<[timestamp |-> now - 7200, status |-> "CREATED", raw_status |-> "CREATED",
       description |-> <<"Shipment created">>, location |-> "Riyadh"],
      [timestamp |-> now - 3600, status |-> "PICKED_UP", raw_status |-> "PICKED_UP",
       description |-> <<"Package picked up by courier">>,
       location |-> "Riyadh Hub"],
      [timestamp |-> now, status |-> "IN_TRANSIT", raw_status |-> "IN_TRANSIT",
       description |-> <<"Package in transit to destination">>,
       location |-> "In Transit"]>>

NoWaybill == <<>>

Response(success, waybill, status, events, errors) ==
    [success |-> success, waybill_number |-> waybill, tracking_number |-> waybill,
     status |-> status, events |-> events, errors |-> errors]

NoResponse == Response(FALSE, NoWaybill, "", <<>>, <<>>)

\* lines 53-60
CreateFailure(errors) == Response(FALSE, NoWaybill, "", <<>>, errors)
\* lines 82-95
CreateSuccess(waybill) == Response(TRUE, waybill, "", <<>>, <<>>)
\* lines 103-133
TrackSynthetic(waybill, now) ==
    Response(TRUE, waybill, "IN_TRANSIT", SyntheticEvents(now), <<>>)
\* lines 147-155
TrackStored(waybill, status, events) == Response(TRUE, waybill, status, events, <<>>)
\* lines 178-184
LabelSuccess(waybill) == Response(TRUE, waybill, "", <<>>, <<>>)
\* lines 168-174
CancelSuccess(waybill) == Response(TRUE, waybill, "", <<>>, <<>>)

\* self._shipments[waybill] = obj
StoreSet(store, waybill, ref) ==
    [w \in DOMAIN store \cup {waybill} |-> IF w = waybill THEN ref ELSE store[w]]

NoMockCall == [op |-> "none", waybill |-> NoWaybill, reason |-> "",
               request |-> NoRequest, known |-> FALSE, resp |-> NoResponse,
               self |-> 0]

IdleMock == [op |-> "none", waybill |-> NoWaybill, reason |-> "", ref |-> 0,
             events |-> <<>>]

MockDone(op, waybill, reason, request, known, resp) ==
    [op |-> op, waybill |-> waybill, reason |-> reason, request |-> request,
     known |-> known, resp |-> resp, self |-> 0]

\* the creates, cancels and ticks done or under way
Work ==
    clock + Len(objs) + Cardinality({t \in Threads : mpc[t] = "append"})
    + Cardinality({<<i, j>> \in (DOMAIN objs) \X (1..MaxWork + NThreads) :
                      j \in DOMAIN objs[i].events /\ j > 1})

MFinish(t, rec) ==
    /\ mpc' = [mpc EXCEPT ![t] = "idle"]
    /\ mcall' = [mcall EXCEPT ![t] = IdleMock]
    \* self: the instance the caller obtained from the factory, if any
    /\ mlast' = [mlast EXCEPT ![t] = [rec EXCEPT !.self = flast[t].inst.id]]

(***************************************************************************)
(* Actions of the simulation adapter.                                      *)
(***************************************************************************)
\* datetime.now() advances
Tick ==
    /\ Work < MaxWork
    /\ clock' = clock + 1
    /\ UNCHANGED <<objs, shipments, mpc, mcall, mlast, cancelled, nonmock>>

\* create_shipment lines 51-60: the request fails validation
CreateInvalid(t, request) ==
    /\ mpc[t] = "idle"
    /\ validate_shipment_request(request) # <<>>
    /\ MFinish(t, MockDone("create", NoWaybill, "", request, FALSE,
                           CreateFailure(validate_shipment_request(request))))
    /\ UNCHANGED <<clock, objs, shipments, cancelled, nonmock>>

\* create_shipment lines 62-95: the shipment is stored under a new waybill
Create(t, request, hex) ==
    LET waybill == MakeWaybill(clock, hex)
    IN  /\ mpc[t] = "idle"
        /\ validate_shipment_request(request) = <<>>
        /\ Work < MaxWork
        /\ objs' = Append(objs, NewShipment(request, clock))
        /\ shipments' = StoreSet(shipments, waybill, Len(objs) + 1)
        /\ MFinish(t, MockDone("create", NoWaybill, "", request,
                               waybill \in DOMAIN shipments, CreateSuccess(waybill)))
        /\ UNCHANGED <<clock, cancelled, nonmock>>

\* track_shipment lines 99-133: the waybill is not stored
TrackUnknown(t, waybill) ==
    /\ mpc[t] = "idle"
    /\ waybill \notin DOMAIN shipments
    /\ MFinish(t, MockDone("track", waybill, "", NoRequest, FALSE,
                           TrackSynthetic(waybill, clock)))
    /\ UNCHANGED <<clock, objs, shipments, cancelled, nonmock>>

\* track_shipment line 99: shipment_data refers to the stored dict
TrackGet(t, waybill) ==
    /\ mpc[t] = "idle"
    /\ waybill \in DOMAIN shipments
    /\ mpc' = [mpc EXCEPT ![t] = "events"]
    /\ mcall' = [mcall EXCEPT ![t] =
            [IdleMock EXCEPT !.op = "track", !.waybill = waybill,
                             !.ref = shipments[waybill]]]
    /\ UNCHANGED <<clock, objs, shipments, mlast, cancelled, nonmock>>

\* track_shipment lines 136-145: the events of the dict are read
TrackEvents(t) ==
    /\ mpc[t] = "events"
    /\ mpc' = [mpc EXCEPT ![t] = "status"]
    /\ mcall' = [mcall EXCEPT ![t].events = TrackingEvents(objs[mcall[t].ref].events)]
    /\ UNCHANGED <<clock, objs, shipments, mlast, cancelled, nonmock>>

\* track_shipment lines 147-155: the status of the dict is read
TrackStatus(t) ==
    LET c == mcall[t]
    IN  /\ mpc[t] = "status"
        /\ MFinish(t, MockDone("track", c.waybill, "", NoRequest, TRUE,
                               TrackStored(c.waybill, objs[c.ref].status, c.events)))
        /\ UNCHANGED <<clock, objs, shipments, cancelled, nonmock>>

\* cancel_shipment lines 159, 168-174: the waybill is not stored
CancelUnknown(t, waybill, reason) ==
    /\ mpc[t] = "idle"
    /\ waybill \notin DOMAIN shipments
    /\ MFinish(t, MockDone("cancel", waybill, reason, NoRequest, FALSE,
                           CancelSuccess(waybill)))
    /\ UNCHANGED <<clock, objs, shipments, cancelled, nonmock>>

\* cancel_shipment lines 159-160: the status is set
CancelStatus(t, waybill, reason) ==
    /\ mpc[t] = "idle"
    /\ waybill \in DOMAIN shipments
    /\ Work < MaxWork
    /\ objs' = [objs EXCEPT ![shipments[waybill]].status = "CANCELLED"]
    /\ mpc' = [mpc EXCEPT ![t] = "append"]
    /\ mcall' = [mcall EXCEPT ![t] =
            [IdleMock EXCEPT !.op = "cancel", !.waybill = waybill,
                             !.reason = reason]]
    /\ UNCHANGED <<clock, shipments, mlast, cancelled, nonmock>>

\* cancel_shipment lines 161-174: the event is appended, the response returned
CancelAppend(t) ==
    LET c == mcall[t]
        ref == shipments[c.waybill]
    IN  /\ mpc[t] = "append"
        /\ objs' = [objs EXCEPT ![ref].events =
                        Append(@, CancelledEvent(clock, c.reason))]
        /\ cancelled' = cancelled \cup {<<c.waybill, c.reason>>}
        /\ MFinish(t, MockDone("cancel", c.waybill, c.reason, NoRequest, TRUE,
                               CancelSuccess(c.waybill)))
        /\ UNCHANGED <<clock, shipments, nonmock>>

\* print_label lines 176-184: the answer is built from the waybill alone
PrintLabel(t, waybill) ==
    /\ mpc[t] = "idle"
    /\ MFinish(t, MockDone("print_label", waybill, "", NoRequest,
                           waybill \in DOMAIN shipments, LabelSuccess(waybill)))
    /\ UNCHANGED <<clock, objs, shipments, cancelled, nonmock>>

(***************************************************************************)
(* The sequential simulation adapter: one caller.                          *)
(***************************************************************************)
MSeqCreateInvalid == \E r \in MockRequests : CreateInvalid(1, r)
MSeqCreate == \E r \in MockRequests, h \in 1..NHex : Create(1, r, h)
MSeqTrackUnknown == \E w \in UnknownWaybills : TrackUnknown(1, w)
MSeqTrackGet == \E w \in DOMAIN shipments : TrackGet(1, w)
MSeqTrackEvents == TrackEvents(1)
MSeqTrackStatus == TrackStatus(1)
MSeqCancelUnknown ==
    \E w \in UnknownWaybills, r \in ReasonInputs : CancelUnknown(1, w, r)
MSeqCancelStatus ==
    \E w \in DOMAIN shipments, r \in ReasonInputs : CancelStatus(1, w, r)
MSeqCancelAppend == CancelAppend(1)
MSeqPrintLabel ==
    \E w \in UnknownWaybills \cup DOMAIN shipments : PrintLabel(1, w)

MockNext ==
    \/ Tick
    \/ MSeqCreateInvalid
    \/ MSeqCreate
    \/ MSeqTrackUnknown
    \/ MSeqTrackGet
    \/ MSeqTrackEvents
    \/ MSeqTrackStatus
    \/ MSeqCancelUnknown
    \/ MSeqCancelStatus
    \/ MSeqCancelAppend
    \/ MSeqPrintLabel

(***************************************************************************)
(* Concurrent callers of the simulation adapter.  The store is a class     *)
(* attribute shared by every instance and no operation takes a lock.       *)
(***************************************************************************)
MRaceCreate == \E t \in Threads, h \in 1..NHex : Create(t, ValidRequest, h)
MRaceTrackUnknown == \E t \in Threads, w \in UnknownWaybills : TrackUnknown(t, w)
MRaceTrackGet == \E t \in Threads, w \in DOMAIN shipments : TrackGet(t, w)
MRaceTrackEvents == \E t \in Threads : TrackEvents(t)
MRaceTrackStatus == \E t \in Threads : TrackStatus(t)
MRaceCancelUnknown ==
    \E t \in Threads, w \in UnknownWaybills :
        CancelUnknown(t, w, "Customer request")
MRaceCancelStatus ==
    \E t \in Threads, w \in DOMAIN shipments :
        CancelStatus(t, w, "Customer request")
MRaceCancelAppend == \E t \in Threads : CancelAppend(t)

MockRaceNext ==
    \/ MRaceCreate
    \/ MRaceTrackUnknown
    \/ MRaceTrackGet
    \/ MRaceTrackEvents
    \/ MRaceTrackStatus
    \/ MRaceCancelUnknown
    \/ MRaceCancelStatus
    \/ MRaceCancelAppend

(***************************************************************************)
(* Status strings.  A Python string whose characters the code inspects     *)
(* (upper(), lower(), the in operator) is a TLA+ string.                   *)
(***************************************************************************)
UpperAlphabet == "ABCDEFGHIJKLMNOPQRSTUVWXYZ"
LowerAlphabet == "abcdefghijklmnopqrstuvwxyz"

CharAt(s, i) == SubSeq(s, i, i)

\* the character c with every letter of alphabet from replaced by that of to
MapChar(c, from, to) ==
    IF \E i \in 1..Len(from) : CharAt(from, i) = c
    THEN CharAt(to, CHOOSE i \in 1..Len(from) : CharAt(from, i) = c)
    ELSE c

RECURSIVE MapChars(_, _, _)
MapChars(s, from, to) ==
    IF s = "" THEN ""
    ELSE MapChar(CharAt(s, 1), from, to) \o MapChars(SubSeq(s, 2, Len(s)), from, to)

\* str.upper() and str.lower()
upper(s) == MapChars(s, LowerAlphabet, UpperAlphabet)
lower(s) == MapChars(s, UpperAlphabet, LowerAlphabet)

\* sub in s
StrIn(sub, s) ==
    \E i \in 1..(Len(s) + 1) :
        /\ i + Len(sub) - 1 <= Len(s)
        /\ SubSeq(s, i, i + Len(sub) - 1) = sub

\* the values of the UnifiedStatus enum
UnifiedStatus ==
    {"PENDING", "CREATED", "CONFIRMED", "PICKED_UP", "IN_TRANSIT",
     "OUT_FOR_DELIVERY", "DELIVERED", "FAILED_DELIVERY", "RETURNED", "CANCELLED",
     "EXCEPTION", "LOST", "DAMAGED"}

\* the outcome of evaluating an expression: a value, or an exception
Value(v) == [outcome |-> "return", value |-> v, exc |-> ""]
Raised(exc) == [outcome |-> "raise", value |-> "", exc |-> exc]

\* UnifiedStatus(value): the member with that value, ValueError when there is none
UnifiedStatusOf(value) ==
    IF value \in UnifiedStatus THEN Value(value) ELSE Raised("ValueError")

\* SMSACourier.STATUS_MAP, in insertion order
STATUS_MAP ==
    <<[key |-> "Data Received", val |-> "CREATED"],
      [key |-> "In Transit", val |-> "IN_TRANSIT"],
      [key |-> "Out for Delivery", val |-> "OUT_FOR_DELIVERY"],
      [key |-> "Delivered", val |-> "DELIVERED"],
      [key |-> "Returned", val |-> "RETURNED"],
      [key |-> "Canceled", val |-> "CANCELLED"]>>

\* the keys of STATUS_MAP that occur in raw_status, case ignored
StatusHits(raw_status) ==
    {i \in DOMAIN STATUS_MAP : StrIn(lower(STATUS_MAP[i].key), lower(raw_status))}

\* MockCourier.map_status without its except clause
map_status_NoExcept(cls, raw_status) ==
    IF cls = "MockCourier" THEN UnifiedStatusOf(upper(raw_status))
    ELSE IF StatusHits(raw_status) # {}
    THEN Value(STATUS_MAP[CHOOSE i \in StatusHits(raw_status) :
                              \A j \in StatusHits(raw_status) : i <= j].val)
    ELSE Value("IN_TRANSIT")

\* MockCourier.map_status (mock.py 43-47) and SMSACourier.map_status (smsa.py 59-64)
map_status(cls, raw_status) ==
    IF cls = "MockCourier"
    THEN IF UnifiedStatusOf(upper(raw_status)).outcome = "raise"
         THEN Value("EXCEPTION")
         ELSE UnifiedStatusOf(upper(raw_status))
    ELSE IF StatusHits(raw_status) # {}
    THEN Value(STATUS_MAP[CHOOSE i \in StatusHits(raw_status) :
                              \A j \in StatusHits(raw_status) : i <= j].val)
    ELSE Value("IN_TRANSIT")

\* raw statuses: provider vocabulary in several casings, enum values, garbage
RawCores ==
    {"", "Data Received", "In Transit", "in transit", "IN TRANSIT",
     "Out for Delivery", "Delivered", "delivered", "DELIVERED", "Returned",
     "Canceled", "Cancelled", "cancelled", "CANCELLED", "in_transit", "IN_TRANSIT",
     "created", "Exception", "lost", "garbage", "???", "42"}
RawPads == {"", " ", "x"}
RawStatusInputs == {p \o c \o q : p \in RawPads, c \in RawCores, q \in RawPads}

(***************************************************************************)
(* Requests that lack some of their fields.                                *)
(***************************************************************************)
RequestFields ==
    {"reference_number", "sender.name", "sender.phone", "recipient.name",
     "recipient.phone", "package.weight", "package.description"}

\* weights of a package: valid ones, and the ones a request without weight has
ValidWeights == {10, 25, 35}
MissingWeights == {0, -1}

\* ValidRequest without the fields in missing, its weight being weight
RequestWithout(missing, weight) ==
    [reference_number |->
         IF "reference_number" \in missing THEN "" ELSE ValidRequest.reference_number,
     sender |->
         [ValidRequest.sender EXCEPT
              !.name = IF "sender.name" \in missing THEN "" ELSE @,
              !.phone = IF "sender.phone" \in missing THEN "" ELSE @],
     recipient |->
         [ValidRequest.recipient EXCEPT
              !.name = IF "recipient.name" \in missing THEN "" ELSE @,
              !.phone = IF "recipient.phone" \in missing THEN "" ELSE @],
     package |->
         [weight |-> weight,
          description |-> IF "package.description" \in missing THEN ""
                          ELSE ValidRequest.package.description]]

RequestInputs ==
    {RequestWithout(m, w) :
        m \in SUBSET (RequestFields \ {"package.weight"}),
        w \in ValidWeights \cup MissingWeights}

\* a validation that stops at the first rule a request breaks
ValidateFor_FirstOnly(cls, request) ==
    IF validate_shipment_request(request) = <<>> THEN <<>>
    ELSE <<Head(validate_shipment_request(request))>>

\* the method cls.validate_shipment_request resolves to: neither MockCourier
\* nor SMSACourier overrides CourierBase.validate_shipment_request
ValidateFor(cls, request) == validate_shipment_request(request)

(***************************************************************************)
(* Applications of the pure methods: one application in each behaviour.    *)
(***************************************************************************)
NoPure == [op |-> "none", cls |-> "", raw |-> "", request |-> NoRequest,
           doc |-> <<>>, res |-> Value("")]

MapStatusCall(cls, raw_status) ==
    /\ pure = NoPure
    /\ pure' = [op |-> "map_status", cls |-> cls, raw |-> raw_status,
                request |-> NoRequest, doc |-> <<>>,
                res |-> map_status(cls, raw_status)]
    /\ UNCHANGED <<fvars, best, mvars, courier, alast, http, svars>>

ValidateCall(cls, request) ==
    /\ pure = NoPure
    /\ pure' = [op |-> "validate", cls |-> cls, raw |-> "", request |-> request,
                doc |-> <<>>, res |-> ValidateFor(cls, request)]
    /\ UNCHANGED <<fvars, best, mvars, courier, alast, http, svars>>

PureMapStatus == \E cls \in Classes, raw \in RawStatusInputs : MapStatusCall(cls, raw)
PureValidate == \E cls \in Classes, r \in RequestInputs : ValidateCall(cls, r)


(***************************************************************************)
(* Courier objects and the SMSA adapter (core/couriers/smsa.py).  The       *)
(* remote service is the environment: every POST draws one outcome.        *)
(***************************************************************************)
NoCourier == NoInst

\* the object CourierBase.__init__ leaves behind when _validate_config raises:
\* config is set (line 35) and is_initialized is False (line 36)
FailedObject(cls, config, id) ==
    [id |-> id, cls |-> cls, config |-> config, is_initialized |-> FALSE]

CfgEmptyKey == [api_key |-> "", base_url |-> "https://courier.test"]
CfgNoUrl == [api_key |-> "key-1"]
CfgEmptyUrl == [api_key |-> "key-1", base_url |-> ""]
CfgMockOnly == [mock |-> "True"]
CourierConfigs ==
    {CfgFull, CfgNoKey, CfgEmptyKey, CfgNoUrl, CfgEmptyUrl, CfgMockOnly, EmptyDict}

\* Optional[str]
None == <<>>
Text(t) == <<t>>

\* the body of a reply: whether it parses as XML, whether it holds the result
\* element the operation looks for, and that element's text
Body(wellformed, found, text) ==
    [wellformed |-> wellformed, found |-> found, text |-> text]
Malformed == Body(FALSE, FALSE, None)
NoResultElement == Body(TRUE, FALSE, None)
ResultTexts == {"SMSA123456", "Failed: Invalid Key", "Successfully cancelled", " "}
Bodies ==
    {Malformed, NoResultElement, Body(TRUE, TRUE, None)}
    \cup {Body(TRUE, TRUE, Text(t)) : t \in ResultTexts}

\* what http_client.post does: it raises, or returns a response
StatusCodes == {200, 404, 500}
TransportExceptions == {"ConnectionError", "RetryError", "ReadTimeout"}
PostRaises(exc) == [kind |-> "exception", exc |-> exc, status |-> 0, body |-> Malformed]
PostReturns(status, body) ==
    [kind |-> "response", exc |-> "", status |-> status, body |-> body]
NoRemote == [kind |-> "none", exc |-> "", status |-> 0, body |-> Malformed]
RemoteOutcomes ==
    {PostRaises(e) : e \in TransportExceptions}
    \cup {PostReturns(s, b) : s \in StatusCodes, b \in Bodies}

\* the unified responses of the adapter
AdapterResponse(success, waybill, status, errors) ==
    [success |-> success, waybill_number |-> waybill, status |-> status,
     errors |-> errors]
NoAdapterResponse == AdapterResponse(FALSE, "", "", <<>>)

\* the outcome of a call on the courier object
Returned(resp) == [outcome |-> "return", exc |-> "", resp |-> resp]
Threw(exc) == [outcome |-> "raise", exc |-> exc, resp |-> NoAdapterResponse]

\* CourierBase._ensure_initialized
_ensure_initialized(self) ==
    IF ~self.is_initialized THEN Threw("RuntimeError") ELSE Returned(NoAdapterResponse)

\* elem.text of the first element whose tag ends with the result tag, or default
ResultText(body, default) == IF body.found THEN body.text ELSE default

\* str(x) inside an f-string
Str(text) == IF text = None THEN "None" ELSE text[1]

\* waybill_number=result_text: None has no characters
WaybillOf(text) == IF text = None THEN "" ELSE text[1]

\* a result that only fails when it says so
ResultFailed_OnlySaid(result_text) ==
    result_text # None /\ StrIn("Failed", result_text[1])

\* smsa.py line 151: not result_text or "Failed" in result_text
ResultFailed(result_text) ==
    \/ result_text = None
    \/ result_text[1] = ""
    \/ StrIn("Failed", result_text[1])

\* SMSACourier.create_shipment lines 125-182, after the POST
SmsaCreateResult(remote) ==
    IF remote.kind = "exception"
    THEN Returned(AdapterResponse(FALSE, "", "", <<remote.exc>>))
    ELSE IF remote.status >= 400
    THEN Returned(AdapterResponse(FALSE, "", "", <<"HTTPError">>))
    ELSE IF ~remote.body.wellformed
    THEN Returned(AdapterResponse(FALSE, "", "", <<"ParseError">>))
    ELSE IF ResultFailed(ResultText(remote.body, None))
    THEN Returned(AdapterResponse(FALSE, "", "",
             <<"SMSA API Error: " \o Str(ResultText(remote.body, None))>>))
    ELSE Returned(AdapterResponse(TRUE, WaybillOf(ResultText(remote.body, None)), "",
                                  <<>>))

\* SMSACourier.track_shipment lines 199-229, after the POST
TrackingResponse(success, waybill, status, errors, events) ==
    [success |-> success, waybill_number |-> waybill, status |-> status,
     errors |-> errors, events |-> events]

\* a track_shipment that calls raise_for_status on the reply
SmsaTrackResult_ChecksStatus(waybill, remote) ==
    IF remote.kind = "exception"
    THEN Returned(TrackingResponse(FALSE, waybill, "EXCEPTION", <<remote.exc>>, <<>>))
    ELSE IF remote.status >= 400
    THEN Returned(TrackingResponse(FALSE, waybill, "EXCEPTION", <<"HTTPError">>, <<>>))
    ELSE Returned(TrackingResponse(TRUE, waybill, "IN_TRANSIT", <<>>, <<>>))

SmsaTrackResult(waybill, remote) ==
    IF remote.kind = "exception"
    THEN Returned(TrackingResponse(FALSE, waybill, "EXCEPTION", <<remote.exc>>, <<>>))
    ELSE Returned(TrackingResponse(TRUE, waybill, "IN_TRANSIT", <<>>, <<>>))

\* SMSACourier.cancel_shipment lines 247-275, after the POST
SmsaCancelResult(waybill, remote) ==
    IF remote.kind = "exception"
    THEN Returned(AdapterResponse(FALSE, waybill, "", <<remote.exc>>))
    ELSE IF ~remote.body.wellformed
    THEN Returned(AdapterResponse(FALSE, waybill, "", <<"ParseError">>))
    ELSE Returned(AdapterResponse(
             StrIn("Successfully",
                   IF ResultText(remote.body, Text("Failed")) = None THEN ""
                   ELSE ResultText(remote.body, Text("Failed"))[1]),
             waybill, "", <<>>))

\* SMSACourier.print_label lines 277-284
SmsaLabelResult(waybill) == Returned(AdapterResponse(TRUE, waybill, "", <<>>))

SmsaWaybills == {"SMSA123"}

\* a completed call on the courier object
AdapterCall(op, cls, config, request, waybill, ready, io, remote, res) ==
    [op |-> op, cls |-> cls, config |-> config, request |-> request,
     waybill |-> waybill, ready |-> ready, io |-> io, remote |-> remote,
     outcome |-> res.outcome, exc |-> res.exc, resp |-> res.resp]

NoAdapterCall ==
    AdapterCall("none", "", EmptyDict, NoRequest, "", FALSE, FALSE, NoRemote,
                Returned(NoAdapterResponse))

\* what the adapter's operations leave alone
nonadapter == <<fvars, best, mvars, pure, http, svars>>

\* cls(config): CourierBase.__init__ (SMSACourier.__init__ calls it first)
NewCourier(cls, config) ==
    LET r == Construct(cls, config, 1)
    IN  /\ courier = NoCourier
        /\ courier' = IF r.outcome = "return" THEN r.inst
                      ELSE FailedObject(cls, config, 1)
        /\ alast' = AdapterCall("construct", cls, config, NoRequest, "", FALSE, FALSE,
                                NoRemote,
                                IF r.outcome = "return" THEN Returned(NoAdapterResponse)
                                ELSE Threw(r.err.type))
        /\ UNCHANGED nonadapter

\* an operation of SMSACourier that starts with self._ensure_initialized(),
\* called on an object that is not initialized
SmsaNotReady(op, request, waybill) ==
    /\ courier.cls = "SMSACourier"
    /\ _ensure_initialized(courier).outcome = "raise"
    /\ alast' = AdapterCall(op, courier.cls, courier.config, request, waybill,
                            courier.is_initialized, FALSE, NoRemote,
                            _ensure_initialized(courier))
    /\ UNCHANGED <<courier, nonadapter>>

\* an operation of SMSACourier on an initialized object: one POST, then res
SmsaCall(op, request, waybill, remote, res) ==
    /\ courier.cls = "SMSACourier"
    /\ _ensure_initialized(courier).outcome = "return"
    /\ alast' = AdapterCall(op, courier.cls, courier.config, request, waybill,
                            courier.is_initialized, TRUE, remote, res)
    /\ UNCHANGED <<courier, nonadapter>>

SmsaCreateNotReady ==
    \E r \in MockRequests : SmsaNotReady("create_shipment", r, "")
SmsaCreate ==
    \E r \in MockRequests, remote \in RemoteOutcomes :
        SmsaCall("create_shipment", r, "", remote, SmsaCreateResult(remote))
SmsaTrackNotReady ==
    \E w \in SmsaWaybills : SmsaNotReady("track_shipment", NoRequest, w)
SmsaTrack ==
    \E w \in SmsaWaybills, remote \in RemoteOutcomes :
        SmsaCall("track_shipment", NoRequest, w, remote, SmsaTrackResult(w, remote))
SmsaCancelNotReady ==
    \E w \in SmsaWaybills : SmsaNotReady("cancel_shipment", NoRequest, w)
SmsaCancel ==
    \E w \in SmsaWaybills, remote \in RemoteOutcomes :
        SmsaCall("cancel_shipment", NoRequest, w, remote, SmsaCancelResult(w, remote))
\* print_label has no _ensure_initialized and sends nothing
SmsaPrintLabel ==
    \E w \in SmsaWaybills :
        /\ courier.cls = "SMSACourier"
        /\ alast' = AdapterCall("print_label", courier.cls, courier.config, NoRequest,
                                w, courier.is_initialized, FALSE, NoRemote,
                                SmsaLabelResult(w))
        /\ UNCHANGED <<courier, nonadapter>>

AdapterConstruct == \E cls \in Classes, c \in CourierConfigs : NewCourier(cls, c)

\* the operations of MockCourier on the object, none of which looks at
\* is_initialized
AdapterMockTick == courier.cls = "MockCourier" /\ Tick
AdapterMockCreateInvalid == courier.cls = "MockCourier" /\ MSeqCreateInvalid
AdapterMockCreate == courier.cls = "MockCourier" /\ MSeqCreate

AdapterNext ==
    \/ AdapterConstruct
    \/ SmsaCreateNotReady
    \/ SmsaCreate
    \/ SmsaTrackNotReady
    \/ SmsaTrack
    \/ SmsaCancelNotReady
    \/ SmsaCancel
    \/ SmsaPrintLabel
    \/ AdapterMockTick
    \/ AdapterMockCreateInvalid
    \/ AdapterMockCreate

(***************************************************************************)
(* The reply of addShipPDF as ElementTree sees it: root.iter() yields the   *)
(* elements in document order, each with its tag ("{namespace}local" when  *)
(* the element is in a namespace) and its text (None when it has none).    *)
(***************************************************************************)
Element(tag, text) == [tag |-> tag, text |-> text]

\* str.endswith
EndsWith(str, suffix) ==
    /\ Len(str) >= Len(suffix)
    /\ SubSeq(str, Len(str) - Len(suffix) + 1, Len(str)) = suffix

\* a search for the element whose tag is exactly the name
FindResult_ExactTag(elems, name) ==
    IF \E i \in DOMAIN elems : elems[i].tag = name
    THEN Body(TRUE, TRUE,
              elems[CHOOSE i \in DOMAIN elems :
                        /\ elems[i].tag = name
                        /\ \A j \in DOMAIN elems : elems[j].tag = name => i <= j].text)
    ELSE Body(TRUE, FALSE, None)

\* smsa.py lines 145-149: the first element whose tag ends with the name
FindResult(elems, name) ==
    IF \E i \in DOMAIN elems : EndsWith(elems[i].tag, name)
    THEN Body(TRUE, TRUE,
              elems[CHOOSE i \in DOMAIN elems :
                        /\ EndsWith(elems[i].tag, name)
                        /\ \A j \in DOMAIN elems :
                              EndsWith(elems[j].tag, name) => i <= j].text)
    ELSE Body(TRUE, FALSE, None)

ResultTags ==
    {"addShipPDFResult", "{http://track.smsaexpress.com/secom/}addShipPDFResult",
     "{urn:other}addShipPDFResult", "addShipPDFResponse"}
ElementTexts ==
    {None, Text("SMSA123456"), Text("Failed: Invalid Key"), Text("Failed"), Text(" ")}
ResultElements == {Element(t, x) : t \in ResultTags, x \in ElementTexts}
Envelope == <<Element("{soap}Envelope", None), Element("{soap}Body", None)>>
Documents ==
    {Envelope} \cup {Envelope \o <<e>> : e \in ResultElements}
    \cup {Envelope \o <<e, f>> : e \in ResultElements, f \in ResultElements}

\* create_shipment lines 141-171 on a 200 reply that parses to elems
ParseCreateCall(elems) ==
    /\ pure = NoPure
    /\ pure' = [op |-> "create_result", cls |-> "SMSACourier", raw |-> "",
                request |-> NoRequest, doc |-> elems,
                res |-> SmsaCreateResult(
                            PostReturns(200, FindResult(elems, "addShipPDFResult")))]
    /\ UNCHANGED <<fvars, best, mvars, courier, alast, http, svars>>

PureParseCreate == \E d \in Documents : ParseCreateCall(d)

PureNext ==
    \/ PureMapStatus
    \/ PureValidate
    \/ PureParseCreate

(***************************************************************************)
(* HTTPClient (core/http_client.py): a requests.Session whose adapter      *)
(* carries urllib3's Retry(total, read, connect, status_forcelist).  The    *)
(* endpoint is a script: its reply to each successive attempt.             *)
(***************************************************************************)
\* the default of the retries parameter, which SMSACourier also passes
retries == 3
status_forcelist == {500, 502, 504}
\* the verbs HTTPClient exposes: get, post, put, delete
Methods == {"GET", "POST", "PUT", "DELETE"}
\* Retry is built without allowed_methods, so urllib3 keeps its default, the
\* idempotent verbs; POST is not among them
allowed_methods == {"HEAD", "GET", "PUT", "DELETE", "OPTIONS", "TRACE"}

\* what one attempt meets at the endpoint
Status(code) == [kind |-> "status", status |-> code]
ConnectError == [kind |-> "connect_error", status |-> 0]
ReadError == [kind |-> "read_error", status |-> 0]
Replies == {Status(200), Status(404), Status(502), ConnectError, ReadError}

\* the longest script; the endpoint answers 200 once its script is over
MaxScript == 4
Scripts == UNION {[1..n -> Replies] : n \in 0..MaxScript}
ReplyTo(script, attempt) ==
    IF attempt \in DOMAIN script THEN script[attempt] ELSE Status(200)

\* Retry(total=retries, read=retries, connect=retries)
NewRetry == [total |-> retries, read |-> retries, connect |-> retries]

\* a Retry whose counters never run out
is_exhausted_Never(r) == FALSE

\* Retry.is_exhausted: some counter fell below zero
is_exhausted(r) == r.total < 0 \/ r.read < 0 \/ r.connect < 0

\* Retry.is_retry: the verb is retryable and the status is in status_forcelist
is_retry(method, status_code) ==
    method \in allowed_methods /\ status_code \in status_forcelist

\* the terminal outcome of a request, as the caller of HTTPClient sees it
HttpRaises(exc) == [kind |-> "exception", exc |-> exc, status |-> 0]
HttpReturns(status) == [kind |-> "response", exc |-> "", status |-> status]
NoOutcome == [kind |-> "none", exc |-> "", status |-> 0]

IdleHttp ==
    [pc |-> "idle", method |-> "", script |-> <<>>, sent |-> 0, retry |-> NewRetry,
     outcome |-> NoOutcome]

nonhttp == <<fvars, best, mvars, pure, courier, alast, svars>>

\* HTTPClient.get/post/put/delete: the session starts a request (one request
\* in each behaviour)
HttpRequest(method, script) ==
    /\ http.pc = "idle"
    /\ http' = [pc |-> "sending", method |-> method, script |-> script, sent |-> 0,
                retry |-> NewRetry, outcome |-> NoOutcome]
    /\ UNCHANGED nonhttp

HttpDone(outcome, retry) ==
    [http EXCEPT !.pc = "done", !.sent = @ + 1, !.retry = retry, !.outcome = outcome]
HttpAgain(retry) == [http EXCEPT !.sent = @ + 1, !.retry = retry]

\* one attempt, and what the retry policy makes of its result
HttpAttempt ==
    LET reply == ReplyTo(http.script, http.sent + 1)
        r == http.retry
        afterConnect == [r EXCEPT !.total = @ - 1, !.connect = @ - 1]
        afterRead == [r EXCEPT !.total = @ - 1, !.read = @ - 1]
        afterStatus == [r EXCEPT !.total = @ - 1]
    IN  /\ http.pc = "sending"
        /\ http' =
             IF reply.kind = "connect_error"
             THEN IF is_exhausted(afterConnect)
                  THEN HttpDone(HttpRaises("ConnectionError"), afterConnect)
                  ELSE HttpAgain(afterConnect)
             ELSE IF reply.kind = "read_error"
             THEN IF http.method \notin allowed_methods
                  THEN HttpDone(HttpRaises("ConnectionError"), r)
                  ELSE IF is_exhausted(afterRead)
                  THEN HttpDone(HttpRaises("ConnectionError"), afterRead)
                  ELSE HttpAgain(afterRead)
             ELSE IF is_retry(http.method, reply.status)
             THEN IF is_exhausted(afterStatus)
                  THEN HttpDone(HttpRaises("RetryError"), afterStatus)
                  ELSE HttpAgain(afterStatus)
             ELSE HttpDone(HttpReturns(reply.status), r)
        /\ UNCHANGED nonhttp

HttpStart == \E m \in Methods, s \in Scripts : HttpRequest(m, s)

HttpNext ==
    \/ HttpStart
    \/ HttpAttempt

(***************************************************************************)
(* The service layer and the message broker.                               *)
(***************************************************************************)
\* the shipments table, by waybill_number (unique), each row with its
\* tracking_events in the order they were recorded
NoRows == <<>>

NoServiceCall ==
    [n |-> 0, op |-> "none", waybill |-> NoWaybill, reason |-> "",
     outcome |-> "none", success |-> FALSE, err |-> ""]

ServiceReturned(n, op, waybill, reason, success) ==
    [n |-> n, op |-> op, waybill |-> waybill, reason |-> reason,
     outcome |-> "return", success |-> success, err |-> ""]

ServiceRaised(n, op, waybill, reason, err) ==
    [n |-> n, op |-> op, waybill |-> waybill, reason |-> reason,
     outcome |-> "raise", success |-> FALSE, err |-> err]

\* get_courier lines 51-68 run by one caller without interruption: the
\* result, the cache and the next object identity afterwards
GetCourier(reg, inst, s, id, provider, config) ==
    LET key == Upper(provider)
        made == Construct(DictGet(reg, key), EffectiveConfig(key, config, s), id)
    IN  IF CacheHit(inst, key, config)
        THEN [res |-> Return(DictGet(inst, key)), instances |-> inst, nextId |-> id]
        ELSE IF ~DictHas(reg, key)
        THEN [res |-> Raise(UnknownProviderError(provider, reg)),
              instances |-> inst, nextId |-> id]
        ELSE IF made.outcome = "raise"
        THEN [res |-> made, instances |-> inst, nextId |-> id]
        ELSE [res |-> made, instances |-> CacheInsert(inst, key, made.inst),
              nextId |-> id + 1]

\* services.py lines 113-143: the row of a new shipment with its first event
NewRow(provider, request, now) ==
    [courier_provider |-> provider, status |-> "CREATED",
     last_status_description |-> <<>>,
     events |-> <<[status |-> "CREATED", raw_status |-> "CREATED",
                   description |-> <<"Shipment created successfully">>,
                   timestamp |-> now]>>]

\* a cancel that writes the row whatever the courier answered
CancelPersist_Always(row, success, reason, now) ==
    [row EXCEPT !.status = "CANCELLED",
                !.last_status_description = <<"Cancelled: ", reason>>,
                !.events = Append(@, [status |-> "CANCELLED", raw_status |-> "CANCELLED",
                                      description |-> <<"Shipment cancelled. Reason: ",
                                          IF reason = "" THEN "N/A" ELSE reason>>,
                                      timestamp |-> now])]

\* services.py lines 225-236: what cancel_shipment writes for the response
CancelPersist(row, success, reason, now) ==
    IF success
    THEN [row EXCEPT !.status = "CANCELLED",
                     !.last_status_description = <<"Cancelled: ", reason>>,
                     !.events = Append(@, [status |-> "CANCELLED",
                                           raw_status |-> "CANCELLED",
                                           description |-> <<"Shipment cancelled. Reason: ",
                                               IF reason = "" THEN "N/A" ELSE reason>>,
                                           timestamp |-> now])]
    ELSE row

\* MockCourier.cancel_shipment lines 159-166 on the stored dicts
MockCancelled(heap, store, waybill, reason, now) ==
    IF waybill \in DOMAIN store
    THEN [heap EXCEPT ![store[waybill]].status = "CANCELLED",
                      ![store[waybill]].events = Append(@, CancelledEvent(now, reason))]
    ELSE heap

\* the replies of the remote service the service-layer runs are given
ServiceRemotes ==
    {PostRaises("ConnectionError"), PostReturns(500, Malformed),
     PostReturns(200, Body(TRUE, TRUE, Text("SMSA123456"))),
     PostReturns(200, Body(TRUE, TRUE, Text("Failed: Invalid Key"))),
     PostReturns(200, Body(TRUE, TRUE, Text("Successfully cancelled")))}

ServiceProviders == {SMSA, MOCK}
ServiceWaybills == DOMAIN db \cup UnknownWaybills

\* the response of courier.create_shipment(request) as [success, waybill]
CourierCreate(cls, remote, now, hex) ==
    IF cls = "MockCourier"
    THEN [success |-> TRUE, waybill |-> MakeWaybill(now, hex)]
    ELSE [success |-> SmsaCreateResult(remote).resp.success,
          waybill |-> Text(SmsaCreateResult(remote).resp.waybill_number)]

\* ShipmentService.create_shipment lines 90-110: the courier cannot be
\* obtained or refuses, and the transaction is rolled back
ServiceCreateRefused(provider, remote) ==
    LET g == GetCourier(registry, instances, settings, nextId, provider, NoConfig)
    IN  /\ svc.n < MaxWork
        /\ DictHas(registry, Upper(provider))
        /\ \/ g.res.outcome = "raise"
           \/ /\ g.res.inst.cls = "SMSACourier"
              /\ ~CourierCreate(g.res.inst.cls, remote, clock, 1).success
        /\ instances' = g.instances
        /\ nextId' = g.nextId
        /\ svc' = ServiceRaised(svc.n + 1, "create_shipment", NoWaybill, "",
                                "ValueError")
        /\ UNCHANGED <<registry, settings, fpc, fcall, flast, best, mvars, avars,
                       db, broker>>

\* ShipmentService.create_shipment lines 90-143: the courier creates the
\* shipment; the row and its first event are inserted, or the insert hits the
\* unique waybill_number and the transaction is rolled back
ServiceCreate(provider, remote, hex) ==
    LET g == GetCourier(registry, instances, settings, nextId, provider, NoConfig)
        cls == g.res.inst.cls
        made == CourierCreate(cls, remote, clock, hex)
    IN  /\ svc.n < MaxWork
        /\ Cardinality(DOMAIN db) < MaxInstances
        /\ DictHas(registry, Upper(provider))
        /\ g.res.outcome = "return"
        /\ made.success
        /\ instances' = g.instances
        /\ nextId' = g.nextId
        /\ IF cls = "MockCourier"
           THEN /\ objs' = Append(objs, NewShipment(ValidRequest, clock))
                /\ shipments' = StoreSet(shipments, made.waybill, Len(objs) + 1)
           ELSE UNCHANGED <<objs, shipments>>
        /\ IF made.waybill \in DOMAIN db
           THEN /\ db' = db
                /\ svc' = ServiceRaised(svc.n + 1, "create_shipment", made.waybill,
                                        "", "IntegrityError")
           ELSE /\ db' = StoreSet(db, made.waybill,
                                  NewRow(Upper(provider), ValidRequest, clock))
                /\ svc' = ServiceReturned(svc.n + 1, "create_shipment",
                                          made.waybill, "", TRUE)
        /\ UNCHANGED <<registry, settings, fpc, fcall, flast, best, clock, mpc,
                       mcall, mlast, cancelled, avars, broker>>

\* cancel_shipment lines 214-217: no row has the waybill
ServiceCancelNotFound(waybill, reason) ==
    /\ svc.n < MaxWork
    /\ waybill \notin DOMAIN db
    /\ svc' = ServiceRaised(svc.n + 1, "cancel_shipment", waybill, reason,
                            "ValueError")
    /\ UNCHANGED <<fvars, best, mvars, avars, db, broker>>

\* cancel_shipment lines 219-220: supports_feature answers False
ServiceCancelUnsupported(waybill, reason) ==
    LET provider == db[waybill].courier_provider
        g == GetCourier(registry, instances, settings, nextId, provider, NoConfig)
    IN  /\ svc.n < MaxWork
        /\ waybill \in DOMAIN db
        /\ ~FactorySupportsFeature(g.res, "cancellation").flag
        /\ instances' = g.instances
        /\ nextId' = g.nextId
        /\ svc' = ServiceRaised(svc.n + 1, "cancel_shipment", waybill, reason,
                                "ValueError")
        /\ UNCHANGED <<registry, settings, fpc, fcall, flast, best, mvars, avars,
                       db, broker>>

\* cancel_shipment lines 222-245: the courier is asked and the answer kept
ServiceCancel(waybill, reason, remote) ==
    LET provider == db[waybill].courier_provider
        g == GetCourier(registry, instances, settings, nextId, provider, NoConfig)
        courier_ == GetCourier(registry, g.instances, settings, g.nextId, provider,
                               NoConfig)
        cls == courier_.res.inst.cls
        success == IF cls = "MockCourier" THEN CancelSuccess(waybill).success
                   ELSE SmsaCancelResult("", remote).resp.success
    IN  /\ svc.n < MaxWork
        /\ waybill \in DOMAIN db
        /\ Len(db[waybill].events) < MaxWork
        /\ FactorySupportsFeature(g.res, "cancellation").flag
        /\ instances' = courier_.instances
        /\ nextId' = courier_.nextId
        /\ IF cls = "MockCourier"
           THEN /\ objs' = MockCancelled(objs, shipments, waybill, reason, clock)
                /\ cancelled' = IF waybill \in DOMAIN shipments
                                THEN cancelled \cup {<<waybill, reason>>}
                                ELSE cancelled
           ELSE UNCHANGED <<objs, cancelled>>
        /\ db' = [db EXCEPT ![waybill] = CancelPersist(@, success, reason, clock)]
        /\ svc' = ServiceReturned(svc.n + 1, "cancel_shipment", waybill, reason,
                                  success)
        /\ UNCHANGED <<registry, settings, fpc, fcall, flast, best, clock,
                       shipments, mpc, mcall, mlast, avars, broker>>

\* the process is started again: the class attributes are as the modules
\* define them, the settings are read anew, the database is kept
ServiceRestart ==
    /\ instances # <<>>
    /\ registry' = <<[key |-> SMSA, val |-> "SMSACourier"],
                     [key |-> MOCK, val |-> "MockCourier"]>>
    /\ instances' = <<>>
    /\ settings' \in SettingsSet
    /\ objs' = <<>>
    /\ shipments' = <<>>
    /\ cancelled' = {}
    /\ UNCHANGED <<nextId, fpc, fcall, flast, best, clock, mpc, mcall, mlast,
                   avars, svars>>

SvcCreateRefused ==
    \E p \in ServiceProviders, r \in ServiceRemotes : ServiceCreateRefused(p, r)
SvcCreate ==
    \E p \in ServiceProviders, r \in ServiceRemotes, h \in 1..NHex :
        ServiceCreate(p, r, h)
SvcCancelNotFound ==
    \E w \in ServiceWaybills, r \in ReasonInputs : ServiceCancelNotFound(w, r)
SvcCancelUnsupported ==
    \E w \in ServiceWaybills, r \in ReasonInputs : ServiceCancelUnsupported(w, r)
SvcCancel ==
    \E w \in ServiceWaybills, r \in ReasonInputs, o \in ServiceRemotes :
        ServiceCancel(w, r, o)

ServiceNext ==
    \/ SvcCreateRefused
    \/ SvcCreate
    \/ SvcCancelNotFound
    \/ SvcCancelUnsupported
    \/ SvcCancel
    \/ ServiceRestart

(***************************************************************************)
(* Callers that obtain MockCourier instances from the factory and use the  *)
(* store through them, one call at a time.                                 *)
(***************************************************************************)
\* an __init__ that gave every instance a store of its own
StoreAfterConstruct_Fresh(store) == <<>>

\* mock.py lines 30-31: _shipments is bound once, in the class body; neither
\* CourierBase.__init__ nor MockCourier assigns it, so constructing an
\* instance leaves the dict every instance reads as it is
StoreAfterConstruct(store) == store

SharedConfigs == {NoConfig, Some(CfgFull)}
\* the waybills the adapter can have issued so far
IssuableWaybills == {MakeWaybill(c, h) : c \in 0..clock, h \in 1..NHex}

\* the creator of a shipment and the caller that tracks it afterwards
Callers == {1, NThreads}
OthersIdle(t) == \A u \in Threads \ {t} : mpc[u] = "idle"
Holds(t) == flast[t].inst.cls = "MockCourier"

\* get_courier("MOCK", config) lines 51-68, run without interruption
SharedGetCourier(t, config) ==
    LET g == GetCourier(registry, instances, settings, nextId, MOCK, config)
    IN  /\ \A u \in Threads : mpc[u] = "idle"
        /\ g.nextId <= MaxInstances + 1
        /\ instances' = g.instances
        /\ nextId' = g.nextId
        /\ shipments' = IF g.nextId # nextId THEN StoreAfterConstruct(shipments)
                        ELSE shipments
        /\ flast' = [flast EXCEPT ![t] =
                Completed([StartCall("get_courier", MOCK, config, "")
                              EXCEPT !.constructed = g.nextId # nextId], g.res)]
        /\ UNCHANGED <<registry, settings, fpc, fcall, best, clock, objs, mpc,
                       mcall, mlast, cancelled, avars, svars>>

SharedGet == \E t \in Callers, c \in SharedConfigs : SharedGetCourier(t, c)
SharedCreate ==
    \E t \in Callers, h \in 1..NHex :
        /\ Holds(t) /\ OthersIdle(t)
        /\ Len(objs) < MaxInstances
        /\ Create(t, ValidRequest, h)
SharedTrackUnknown ==
    \E t \in Callers, w \in IssuableWaybills :
        Holds(t) /\ OthersIdle(t) /\ TrackUnknown(t, w)
SharedTrackGet ==
    \E t \in Callers, w \in IssuableWaybills :
        Holds(t) /\ OthersIdle(t) /\ TrackGet(t, w)
SharedTrackEvents == \E t \in Callers : TrackEvents(t)
SharedTrackStatus == \E t \in Callers : TrackStatus(t)

SharedNext ==
    \/ SharedGet
    \/ SharedCreate
    \/ SharedTrackUnknown
    \/ SharedTrackGet
    \/ SharedTrackEvents
    \/ SharedTrackStatus

(***************************************************************************)
(* SimpleMessageBroker (core/task_queue.py): a list used as a queue, any   *)
(* thread appending to it, one daemon thread taking from its head.         *)
(***************************************************************************)
\* what calling a task does: it returns, it raises an Exception, or it raises
\* a BaseException that is not an Exception (SystemExit from sys.exit())
TaskKinds == {"returns", "raises", "exits"}
Task(id, kind) == [id |-> id, kind |-> kind]
NoTask == Task(0, "returns")

\* __init__ lines 14-17: the queue is empty and the worker is started.
\* enqueued, executed and logged record what was appended, what was called
\* and what logger.error was called for, in that order
NewBroker ==
    [queue |-> <<>>, pc |-> "check", task |-> NoTask, enqueued |-> <<>>,
     executed |-> <<>>, logged |-> <<>>]

\* enqueue line 22: list.append is one step for every other thread
Enqueue(t, kind) ==
    LET item == Task(Len(broker.enqueued) + 1, kind)
    IN  /\ Len(broker.enqueued) < MaxWork
        /\ broker' = [broker EXCEPT !.queue = Append(@, item),
                                    !.enqueued = Append(@, item)]
        /\ UNCHANGED <<fvars, best, mvars, avars, db, svc>>

\* _process_queue line 27: if self.queue
WorkerCheck ==
    /\ broker.pc = "check"
    /\ broker' = [broker EXCEPT !.pc = IF broker.queue # <<>> THEN "pop"
                                       ELSE "sleep"]
    /\ UNCHANGED <<fvars, best, mvars, avars, db, svc>>

\* line 28: self.queue.pop(0)
WorkerPop ==
    /\ broker.pc = "pop"
    /\ broker' = [broker EXCEPT !.pc = "run", !.task = Head(broker.queue),
                                !.queue = Tail(@)]
    /\ UNCHANGED <<fvars, best, mvars, avars, db, svc>>

\* lines 29-34: the task is called; an Exception is logged and the loop goes
\* on, anything else it raises leaves the loop and ends the thread
WorkerRun ==
    /\ broker.pc = "run"
    /\ broker' = [broker EXCEPT
            !.executed = Append(@, broker.task),
            !.logged = IF broker.task.kind = "raises" THEN Append(@, broker.task)
                       ELSE @,
            !.pc = IF broker.task.kind = "exits" THEN "dead" ELSE "check",
            !.task = NoTask]
    /\ UNCHANGED <<fvars, best, mvars, avars, db, svc>>

\* line 36: time.sleep(1) returns
WorkerWake ==
    /\ broker.pc = "sleep"
    /\ broker' = [broker EXCEPT !.pc = "check"]
    /\ UNCHANGED <<fvars, best, mvars, avars, db, svc>>

BrokerEnqueue == \E t \in Threads, k \in TaskKinds : Enqueue(t, k)

Worker == WorkerCheck \/ WorkerPop \/ WorkerRun \/ WorkerWake

BrokerNext ==
    \/ BrokerEnqueue
    \/ WorkerCheck
    \/ WorkerPop
    \/ WorkerRun
    \/ WorkerWake
(***************************************************************************)
(* Specifications.                                                         *)
(***************************************************************************)
FactoryInit ==
    /\ registry = <<[key |-> SMSA, val |-> "SMSACourier"],
                    [key |-> MOCK, val |-> "MockCourier"]>>
    /\ instances = <<>>
    /\ settings \in SettingsSet
    /\ nextId = 1
    /\ fpc = [t \in Threads |-> "idle"]
    /\ fcall = [t \in Threads |-> IdleCall]
    /\ flast = [t \in Threads |-> NoCall]
    /\ best = NoBest
    /\ clock = 0
    /\ objs = <<>>
    /\ shipments = <<>>
    /\ mpc = [t \in Threads |-> "idle"]
    /\ mcall = [t \in Threads |-> IdleMock]
    /\ mlast = [t \in Threads |-> NoMockCall]
    /\ cancelled = {}
    /\ pure = NoPure
    /\ courier = NoCourier
    /\ alast = NoAdapterCall
    /\ http = IdleHttp
    /\ db = NoRows
    /\ svc = NoServiceCall
    /\ broker = NewBroker

SpecFactory == FactoryInit /\ [][FactoryNext]_vars

SpecFactoryRace == FactoryInit /\ [][FactoryRaceNext]_vars

BestInit ==
    /\ registry \in RegistryInputs
    /\ instances = <<>>
    /\ settings = EmptyDict
    /\ nextId = 1
    /\ fpc = [t \in Threads |-> "idle"]
    /\ fcall = [t \in Threads |-> IdleCall]
    /\ flast = [t \in Threads |-> NoCall]
    /\ best = NoBest
    /\ clock = 0
    /\ objs = <<>>
    /\ shipments = <<>>
    /\ mpc = [t \in Threads |-> "idle"]
    /\ mcall = [t \in Threads |-> IdleMock]
    /\ mlast = [t \in Threads |-> NoMockCall]
    /\ cancelled = {}
    /\ pure = NoPure
    /\ courier = NoCourier
    /\ alast = NoAdapterCall
    /\ http = IdleHttp
    /\ db = NoRows
    /\ svc = NoServiceCall
    /\ broker = NewBroker

SpecBest == BestInit /\ [][BestNext]_vars

MockInit ==
    /\ registry = <<[key |-> SMSA, val |-> "SMSACourier"],
                    [key |-> MOCK, val |-> "MockCourier"]>>
    /\ instances = <<>>
    /\ settings = EmptyDict
    /\ nextId = 1
    /\ fpc = [t \in Threads |-> "idle"]
    /\ fcall = [t \in Threads |-> IdleCall]
    /\ flast = [t \in Threads |-> NoCall]
    /\ best = NoBest
    /\ clock = 0
    /\ objs = <<>>
    /\ shipments = <<>>
    /\ mpc = [t \in Threads |-> "idle"]
    /\ mcall = [t \in Threads |-> IdleMock]
    /\ mlast = [t \in Threads |-> NoMockCall]
    /\ cancelled = {}
    /\ pure = NoPure
    /\ courier = NoCourier
    /\ alast = NoAdapterCall
    /\ http = IdleHttp
    /\ db = NoRows
    /\ svc = NoServiceCall
    /\ broker = NewBroker

SpecMock == MockInit /\ [][MockNext]_vars

SpecMockRace == MockInit /\ [][MockRaceNext]_vars

PureInit ==
    /\ registry = <<[key |-> SMSA, val |-> "SMSACourier"],
                    [key |-> MOCK, val |-> "MockCourier"]>>
    /\ instances = <<>>
    /\ settings = EmptyDict
    /\ nextId = 1
    /\ fpc = [t \in Threads |-> "idle"]
    /\ fcall = [t \in Threads |-> IdleCall]
    /\ flast = [t \in Threads |-> NoCall]
    /\ best = NoBest
    /\ clock = 0
    /\ objs = <<>>
    /\ shipments = <<>>
    /\ mpc = [t \in Threads |-> "idle"]
    /\ mcall = [t \in Threads |-> IdleMock]
    /\ mlast = [t \in Threads |-> NoMockCall]
    /\ cancelled = {}
    /\ pure = NoPure
    /\ courier = NoCourier
    /\ alast = NoAdapterCall
    /\ http = IdleHttp
    /\ db = NoRows
    /\ svc = NoServiceCall
    /\ broker = NewBroker

SpecPure == PureInit /\ [][PureNext]_vars

AdapterInit ==
    /\ registry = <<[key |-> SMSA, val |-> "SMSACourier"],
                    [key |-> MOCK, val |-> "MockCourier"]>>
    /\ instances = <<>>
    /\ settings = EmptyDict
    /\ nextId = 1
    /\ fpc = [t \in Threads |-> "idle"]
    /\ fcall = [t \in Threads |-> IdleCall]
    /\ flast = [t \in Threads |-> NoCall]
    /\ best = NoBest
    /\ clock = 0
    /\ objs = <<>>
    /\ shipments = <<>>
    /\ mpc = [t \in Threads |-> "idle"]
    /\ mcall = [t \in Threads |-> IdleMock]
    /\ mlast = [t \in Threads |-> NoMockCall]
    /\ cancelled = {}
    /\ pure = NoPure
    /\ courier = NoCourier
    /\ alast = NoAdapterCall
    /\ http = IdleHttp
    /\ db = NoRows
    /\ svc = NoServiceCall
    /\ broker = NewBroker

SpecAdapter == AdapterInit /\ [][AdapterNext]_vars

HttpInit ==
    /\ registry = <<[key |-> SMSA, val |-> "SMSACourier"],
                    [key |-> MOCK, val |-> "MockCourier"]>>
    /\ instances = <<>>
    /\ settings = EmptyDict
    /\ nextId = 1
    /\ fpc = [t \in Threads |-> "idle"]
    /\ fcall = [t \in Threads |-> IdleCall]
    /\ flast = [t \in Threads |-> NoCall]
    /\ best = NoBest
    /\ clock = 0
    /\ objs = <<>>
    /\ shipments = <<>>
    /\ mpc = [t \in Threads |-> "idle"]
    /\ mcall = [t \in Threads |-> IdleMock]
    /\ mlast = [t \in Threads |-> NoMockCall]
    /\ cancelled = {}
    /\ pure = NoPure
    /\ courier = NoCourier
    /\ alast = NoAdapterCall
    /\ http = IdleHttp
    /\ db = NoRows
    /\ svc = NoServiceCall
    /\ broker = NewBroker

SpecHttp == HttpInit /\ [][HttpNext]_vars

ServiceInit ==
    /\ registry = <<[key |-> SMSA, val |-> "SMSACourier"],
                    [key |-> MOCK, val |-> "MockCourier"]>>
    /\ instances = <<>>
    /\ settings \in SettingsSet
    /\ nextId = 1
    /\ fpc = [t \in Threads |-> "idle"]
    /\ fcall = [t \in Threads |-> IdleCall]
    /\ flast = [t \in Threads |-> NoCall]
    /\ best = NoBest
    /\ clock = 0
    /\ objs = <<>>
    /\ shipments = <<>>
    /\ mpc = [t \in Threads |-> "idle"]
    /\ mcall = [t \in Threads |-> IdleMock]
    /\ mlast = [t \in Threads |-> NoMockCall]
    /\ cancelled = {}
    /\ pure = NoPure
    /\ courier = NoCourier
    /\ alast = NoAdapterCall
    /\ http = IdleHttp
    /\ db = NoRows
    /\ svc = NoServiceCall
    /\ broker = NewBroker

SpecService == ServiceInit /\ [][ServiceNext]_vars

SharedInit ==
    /\ registry = <<[key |-> SMSA, val |-> "SMSACourier"],
                    [key |-> MOCK, val |-> "MockCourier"]>>
    /\ instances = <<>>
    /\ settings = EmptyDict
    /\ nextId = 1
    /\ fpc = [t \in Threads |-> "idle"]
    /\ fcall = [t \in Threads |-> IdleCall]
    /\ flast = [t \in Threads |-> NoCall]
    /\ best = NoBest
    /\ clock = 0
    /\ objs = <<>>
    /\ shipments = <<>>
    /\ mpc = [t \in Threads |-> "idle"]
    /\ mcall = [t \in Threads |-> IdleMock]
    /\ mlast = [t \in Threads |-> NoMockCall]
    /\ cancelled = {}
    /\ pure = NoPure
    /\ courier = NoCourier
    /\ alast = NoAdapterCall
    /\ http = IdleHttp
    /\ db = NoRows
    /\ svc = NoServiceCall
    /\ broker = NewBroker

SpecShared == SharedInit /\ [][SharedNext]_vars

BrokerInit ==
    /\ registry = <<[key |-> SMSA, val |-> "SMSACourier"],
                    [key |-> MOCK, val |-> "MockCourier"]>>
    /\ instances = <<>>
    /\ settings = EmptyDict
    /\ nextId = 1
    /\ fpc = [t \in Threads |-> "idle"]
    /\ fcall = [t \in Threads |-> IdleCall]
    /\ flast = [t \in Threads |-> NoCall]
    /\ best = NoBest
    /\ clock = 0
    /\ objs = <<>>
    /\ shipments = <<>>
    /\ mpc = [t \in Threads |-> "idle"]
    /\ mcall = [t \in Threads |-> IdleMock]
    /\ mlast = [t \in Threads |-> NoMockCall]
    /\ cancelled = {}
    /\ pure = NoPure
    /\ courier = NoCourier
    /\ alast = NoAdapterCall
    /\ http = IdleHttp
    /\ db = NoRows
    /\ svc = NoServiceCall
    /\ broker = NewBroker

SpecBroker == BrokerInit /\ [][BrokerNext]_vars

\* the worker thread runs for as long as the process does
SpecBrokerFair == BrokerInit /\ [][BrokerNext]_vars /\ WF_vars(Worker)

\* the session's request loop runs on the caller's thread until it ends
SpecHttpFair == HttpInit /\ [][HttpNext]_vars /\ WF_vars(HttpAttempt)

Spec == SpecFactory

(***************************************************************************)
(* Claims about the factory.  In SpecFactory there is one caller, so a     *)
(* step that leaves it idle completes a call: flast' is that call and      *)
(* flast the call completed directly before it.                            *)
(***************************************************************************)
IsGet(c) == c.op = "get_courier"

\* C1: a get_courier(id) with no config override that directly follows a
\* get_courier(id) with no config override which returned an instance returns
\* that same instance (same identity) and constructs nothing.
C1_IdempotentResolution ==
    [][LET p == flast[1]
           l == flast'[1]
       IN  (/\ fpc'[1] = "idle"
            /\ IsGet(p) /\ p.config = NoConfig /\ p.outcome = "return"
            /\ IsGet(l) /\ l.config = NoConfig /\ l.provider = p.provider)
           => /\ l.outcome = "return"
              /\ l.inst = p.inst
              /\ ~l.constructed]_vars

\* a get_courier(id) without config was answered from the cache
C1_Witness ==
    /\ IsGet(flast[1]) /\ flast[1].config = NoConfig
    /\ flast[1].outcome = "return" /\ ~flast[1].constructed

\* C2 as stated: get_courier(id, config) with an explicit config always
\* constructs a new instance with that config and leaves it in the cache
\* under the upper-cased id.
C2_AlwaysConstructsWithThatConfig ==
    LET l == flast[1]
        key == Upper(l.provider)
    IN  (IsGet(l) /\ l.config # NoConfig)
        => /\ l.outcome = "return"
           /\ l.constructed
           /\ l.inst.config = l.config[1]
           /\ DictHas(instances, key)
           /\ DictGet(instances, key) = l.inst

\* C2 amended: whenever get_courier(id, config) with an explicit config
\* returns, it has constructed a new instance, configured with that config or,
\* when the supplied config is empty, with the provider's default config, and
\* has replaced the cache entry of the upper-cased id by it (an instance other
\* than the one cached before); a get_courier(id) without config that directly
\* follows returns that new instance.
C2_ExplicitConfigReplacesCache ==
    [][LET p == flast[1]
           l == flast'[1]
           key == Upper(l.provider)
       IN  fpc'[1] = "idle" =>
           /\ (IsGet(l) /\ l.config # NoConfig /\ l.outcome = "return")
              => /\ l.constructed
                 /\ l.inst.config =
                        IF l.config[1] # EmptyDict THEN l.config[1]
                        ELSE _get_default_config(key, settings)
                 /\ DictHas(instances', key)
                 /\ DictGet(instances', key) = l.inst
                 /\ DictHas(instances, key)
                        => DictGet(instances, key).id # l.inst.id
           /\ (/\ IsGet(p) /\ p.config # NoConfig /\ p.outcome = "return"
               /\ IsGet(l) /\ l.config = NoConfig /\ l.provider = p.provider)
              => /\ l.outcome = "return"
                 /\ l.inst = p.inst]_vars

\* the second instance constructed replaced the first under the same key and
\* a get_courier(id) without config then returned it
C2_Witness ==
    /\ IsGet(flast[1]) /\ flast[1].config = NoConfig
    /\ flast[1].outcome = "return" /\ ~flast[1].constructed
    /\ flast[1].inst.id = 2 /\ flast[1].inst.config = CfgFull
    /\ Len(instances) = 1

\* C3: get_courier on an identifier that is not in the type registry raises a
\* ValueError naming the identifier and listing the registered identifiers,
\* and changes neither the registry nor the instance cache.
C3_UnknownProviderError ==
    [][LET l == flast'[1]
       IN  (/\ fpc'[1] = "idle"
            /\ IsGet(l)
            /\ ~DictHas(registry, Upper(l.provider)))
           => /\ l.outcome = "raise"
              /\ l.err.type = "ValueError"
              /\ l.err.provider = l.provider
              /\ l.err.available = DictKeys(registry)
              /\ registry' = registry
              /\ instances' = instances]_vars

\* an unregistered identifier was refused while three providers were registered
C3_Witness ==
    /\ IsGet(flast[1]) /\ flast[1].outcome = "raise"
    /\ flast[1].provider = UNKNOWN_PROVIDER
    /\ Len(flast[1].err.available) = 3

\* C4: CourierFactory.supports_feature never raises; it returns False when the
\* resolution of the provider raised (unknown identifier or constructor
\* error), and otherwise the feature check of the instance it resolved, which
\* is the instance cached under the upper-cased identifier.
C4_SupportsFeatureNeverRaises ==
    LET l == flast[1]
        key == Upper(l.provider)
    IN  l.op = "supports_feature"
        => /\ l.outcome = "return"
           /\ ~DictHas(registry, key) => (l.resolved = "raise" /\ ~l.flag)
           /\ l.resolved = "raise" => ~l.flag
           /\ l.resolved = "return"
                => /\ DictHas(instances, key)
                   /\ DictGet(instances, key) = l.inst
                   /\ l.flag = (l.feature \in get_supported_features(l.inst.cls))

\* the constructor of a registered provider raised inside supports_feature
C4_Witness ==
    /\ flast[1].op = "supports_feature"
    /\ DictHas(registry, Upper(flast[1].provider))
    /\ flast[1].resolved = "raise"
    /\ flast[1].outcome = "return" /\ ~flast[1].flag

\* C5: get_best_courier returns SMSA when origin and destination are both
\* "SA" and SMSA is registered; otherwise MOCK if MOCK is registered;
\* otherwise the first registered provider; it raises only when the registry
\* is empty; weight and priority do not enter the result.
C5_BestCourierSelection ==
    LET keys == DictKeys(registry)
        has(k) == \E i \in DOMAIN keys : keys[i] = k
    IN  best.op = "get_best_courier"
        => IF best.origin = "SA" /\ best.destination = "SA" /\ has(SMSA)
           THEN best.outcome = "return" /\ best.value = SMSA
           ELSE IF has(MOCK)
           THEN best.outcome = "return" /\ best.value = MOCK
           ELSE IF Len(keys) > 0
           THEN best.outcome = "return" /\ best.value = keys[1]
           ELSE best.outcome = "raise" /\ best.err.type = "ValueError"

\* a domestic shipment fell back to the first registered provider
C5_Witness ==
    /\ best.op = "get_best_courier"
    /\ best.origin = "SA" /\ best.destination = "SA"
    /\ best.value = ARAMEX /\ Len(registry) = 1

\* C6: callers of get_courier(id) with no config override, running
\* concurrently, all receive the same instance for the same identifier, and
\* no two of them construct one.
C6_SingleConstruction ==
    \A t1, t2 \in Threads :
        (/\ t1 # t2
         /\ IsGet(flast[t1]) /\ flast[t1].outcome = "return"
         /\ IsGet(flast[t2]) /\ flast[t2].outcome = "return"
         /\ Upper(flast[t1].provider) = Upper(flast[t2].provider))
        => /\ flast[t1].inst = flast[t2].inst
           /\ ~(flast[t1].constructed /\ flast[t2].constructed)

(***************************************************************************)
(* Claims about the simulation adapter.  In SpecMock there is one caller,  *)
(* so a step that leaves it idle completes a call: mlast' is that call and *)
(* mlast the call completed directly before it.                            *)
(***************************************************************************)
Last(q) == q[Len(q)]

\* the description names the reason given to cancel_shipment
ReferencesReason(description, reason) ==
    /\ Len(description) = 2
    /\ description[2] = IF reason = "" THEN "No reason provided" ELSE reason

\* C7: create_shipment with a valid request returns success with a non-empty
\* waybill and a tracking number equal to it, and a track_shipment of that
\* waybill issued directly afterwards returns success, status CREATED and
\* exactly one event.
C7_CreationRoundTrip ==
    [][LET p == mlast[1]
           l == mlast'[1]
       IN  mpc'[1] = "idle" =>
           /\ (l.op = "create" /\ l.request = ValidRequest)
              => /\ l.resp.success
                 /\ l.resp.waybill_number # NoWaybill
                 /\ l.resp.tracking_number = l.resp.waybill_number
           /\ (/\ p.op = "create" /\ p.resp.success
               /\ l.op = "track" /\ l.waybill = p.resp.waybill_number)
              => /\ l.resp.success
                 /\ l.resp.status = "CREATED"
                 /\ Len(l.resp.events) = 1
                 /\ l.resp.events[1].status = "CREATED"]_vars

\* a shipment was created over an earlier one with the same waybill, which had
\* been cancelled, and then tracked
C7_Witness ==
    /\ mlast[1].op = "track" /\ mlast[1].known
    /\ mlast[1].resp.status = "CREATED" /\ Len(mlast[1].resp.events) = 1
    /\ \E i \in DOMAIN objs : objs[i].status = "CANCELLED"

\* C8 as stated: once cancel_shipment(waybill, reason) has returned for a
\* stored waybill, every later track_shipment of that waybill reports
\* CANCELLED and a last event whose description names that reason.  It is
\* stated for the runs in which no waybill was issued twice, so that what
\* refutes it does not rest on the reuse of a waybill (C9).
C8_EveryLaterTrackCancelled ==
    LET l == mlast[1]
    IN  (l.op = "track" /\ Cardinality(DOMAIN shipments) = Len(objs))
        => \A c \in cancelled :
              c[1] = l.waybill
              => /\ l.resp.status = "CANCELLED"
                 /\ ReferencesReason(Last(l.resp.events).description, c[2])

\* C8 amended: a track_shipment issued directly after cancel_shipment(waybill,
\* reason) returned for a stored waybill reports success, status CANCELLED
\* and an event list whose last entry is the CANCELLED event naming that
\* reason.
C8_CancelThenTrack ==
    [][LET p == mlast[1]
           l == mlast'[1]
       IN  (/\ mpc'[1] = "idle"
            /\ p.op = "cancel" /\ p.known /\ p.resp.success
            /\ l.op = "track" /\ l.waybill = p.waybill)
           => /\ l.resp.success
              /\ l.resp.status = "CANCELLED"
              /\ Last(l.resp.events).status = "CANCELLED"
              /\ ReferencesReason(Last(l.resp.events).description, p.reason)]_vars

\* a shipment cancelled twice was tracked after the second cancel
C8_Witness ==
    /\ mlast[1].op = "track" /\ mlast[1].resp.status = "CANCELLED"
    /\ Len(mlast[1].resp.events) = 3
    /\ <<mlast[1].waybill, "Customer request">> \in cancelled

\* C9: every successful create_shipment returns a waybill no earlier one
\* returned, so every shipment dict ever created is still stored under its
\* own waybill.
C9_WaybillsUnique == Cardinality(DOMAIN shipments) = Len(objs)

\* C10: no track_shipment, run concurrently with cancel_shipment calls on the
\* same waybill, returns status CANCELLED with a last event that is not the
\* CANCELLED event.
C10_NoHalfAppliedCancel ==
    \A t \in Threads :
        (mlast[t].op = "track" /\ mlast[t].resp.status = "CANCELLED")
        => Last(mlast[t].resp.events).status = "CANCELLED"

(***************************************************************************)
(* Claims about the pure methods of the adapters.                          *)
(***************************************************************************)
\* raw_status names no status the provider knows
Unmapped(cls, raw_status) ==
    IF cls = "MockCourier" THEN upper(raw_status) \notin UnifiedStatus
    ELSE \A i \in DOMAIN STATUS_MAP :
             ~StrIn(lower(STATUS_MAP[i].key), lower(raw_status))

\* C11: map_status of either provider, applied to any string (empty or garbage
\* included), returns a member of UnifiedStatus, raises nothing and changes no
\* state; an input that names no known status gives EXCEPTION on the simulation
\* adapter and IN_TRANSIT on the SMSA adapter.
C11_MapStatusTotal ==
    [][pure'.op = "map_status"
       => /\ pure'.res.outcome = "return"
          /\ pure'.res.value \in UnifiedStatus
          /\ Unmapped(pure'.cls, pure'.raw)
             => pure'.res.value = IF pure'.cls = "MockCourier" THEN "EXCEPTION"
                                  ELSE "IN_TRANSIT"
          /\ UNCHANGED <<fvars, best, mvars, courier, alast, http, svars>>]_vars

C11_Witness ==
    /\ pure.op = "map_status"
    /\ pure.cls = "MockCourier"
    /\ pure.raw = ""
    /\ pure.res = Value("EXCEPTION")

\* the message of validate_shipment_request for each field
FieldMessage ==
    [f \in RequestFields |->
        CASE f = "reference_number" -> "Reference number is required"
          [] f = "sender.name" -> "Sender name is required"
          [] f = "sender.phone" -> "Sender phone is required"
          [] f = "recipient.name" -> "Recipient name is required"
          [] f = "recipient.phone" -> "Recipient phone is required"
          [] f = "package.weight" -> "Package weight must be greater than 0"
          [] f = "package.description" -> "Package description is required"]

IsMissing(request, f) ==
    CASE f = "reference_number" -> request.reference_number = ""
      [] f = "sender.name" -> request.sender.name = ""
      [] f = "sender.phone" -> request.sender.phone = ""
      [] f = "recipient.name" -> request.recipient.name = ""
      [] f = "recipient.phone" -> request.recipient.phone = ""
      [] f = "package.weight" -> ~(request.package.weight > 0)
      [] f = "package.description" -> request.package.description = ""

Occurrences(errors, m) == Cardinality({i \in DOMAIN errors : errors[i] = m})

\* C12: for every subset of the fields sender.name, sender.phone,
\* recipient.name, recipient.phone, package.weight > 0 and package.description
\* that a request lacks, validate_shipment_request returns exactly one message
\* for each missing field and no message for a field that is present and valid;
\* a request whose only defect is weight 0 yields exactly the weight error.
C12_ValidationComplete ==
    pure.op = "validate"
    => /\ \A f \in RequestFields :
              Occurrences(pure.res, FieldMessage[f])
                  = IF IsMissing(pure.request, f) THEN 1 ELSE 0
       /\ \A i \in DOMAIN pure.res :
              \E f \in RequestFields :
                  IsMissing(pure.request, f) /\ pure.res[i] = FieldMessage[f]
       /\ pure.request = [ValidRequest EXCEPT !.package.weight = 0]
          => pure.res = <<"Package weight must be greater than 0">>

C12_Witness ==
    /\ pure.op = "validate"
    /\ pure.request =
           RequestWithout(RequestFields \ {"reference_number"}, 0)
    /\ Len(pure.res) = 6

\* the messages of the shared rules of CourierBase
BaseMessages ==
    {validate_shipment_request(NoRequest)[i] :
        i \in DOMAIN validate_shipment_request(NoRequest)}

\* C14: validation on the SMSA adapter applies the shared rules and then the
\* provider's own limits: a request with package weight 35 fails with a
\* weight-limit message (a message that is none of the shared rules'), and a
\* request with weight 25 gets no such message.
C14_WeightLimitEnforced ==
    (pure.op = "validate" /\ pure.cls = "SMSACourier")
    => /\ pure.request.package.weight = 35
          => \E i \in DOMAIN pure.res : pure.res[i] \notin BaseMessages
       /\ pure.request.package.weight = 25
          => \A i \in DOMAIN pure.res : pure.res[i] \in BaseMessages

(***************************************************************************)
(* Claims about the adapters' operations.  alast is the last completed     *)
(* call on the courier object, mlast[1] the last completed call on the     *)
(* simulation adapter.                                                     *)
(***************************************************************************)
\* C13: create_shipment of every provider validates the request before it
\* calls the remote provider: for a request that fails validate_shipment_request
\* it returns success = false with the validation errors, raises nothing and
\* makes no remote call.
C13_ValidatesBeforeRemoteCall ==
    /\ (/\ alast.op = "create_shipment"
        /\ alast.ready
        /\ ValidateFor(alast.cls, alast.request) # <<>>)
       => /\ alast.outcome = "return"
          /\ ~alast.resp.success
          /\ alast.resp.errors = ValidateFor(alast.cls, alast.request)
          /\ ~alast.io
    /\ (/\ mlast[1].op = "create"
        /\ ValidateFor("MockCourier", mlast[1].request) # <<>>)
       => /\ ~mlast[1].resp.success
          /\ mlast[1].resp.errors = ValidateFor("MockCourier", mlast[1].request)

\* C15: every response of create_shipment, of either provider and whatever the
\* request and the remote outcome, has a non-empty waybill_number when success
\* is true, and an empty waybill_number and a non-empty errors list when
\* success is false.
C15_ShipmentResponseInvariant ==
    /\ (alast.op = "create_shipment" /\ alast.outcome = "return")
       => IF alast.resp.success
          THEN alast.resp.waybill_number # ""
          ELSE alast.resp.waybill_number = "" /\ alast.resp.errors # <<>>
    /\ mlast[1].op = "create"
       => IF mlast[1].resp.success
          THEN mlast[1].resp.waybill_number # NoWaybill
          ELSE /\ mlast[1].resp.waybill_number = NoWaybill
               /\ mlast[1].resp.errors # <<>>

C15_Witness ==
    /\ alast.op = "create_shipment"
    /\ alast.remote = PostReturns(200, NoResultElement)
    /\ ~alast.resp.success
    /\ alast.resp.errors = <<"SMSA API Error: None">>

\* the POST met a network failure, an HTTP error status or an unparseable reply
TransportFailure(remote) ==
    \/ remote.kind = "exception"
    \/ remote.kind = "response" /\ remote.status >= 400
    \/ remote.kind = "response" /\ ~remote.body.wellformed

\* C16: create_shipment, track_shipment and cancel_shipment of the SMSA adapter
\* turn a network failure, an HTTP error status or a malformed reply into a
\* response with success = false and a non-empty errors list, and do not raise.
C16_NoTransportErrorEscapes ==
    (/\ alast.op \in {"create_shipment", "track_shipment", "cancel_shipment"}
     /\ alast.io
     /\ TransportFailure(alast.remote))
    => /\ alast.outcome = "return"
       /\ ~alast.resp.success
       /\ alast.resp.errors # <<>>

\* C17: print_label of the SMSA adapter returns success = false with an
\* explanatory error and does not raise.
C17_LabelRetrievalUnsupported ==
    alast.op = "print_label"
    => /\ alast.outcome = "return"
       /\ ~alast.resp.success
       /\ alast.resp.errors # <<>>

\* config has no non-empty value under key
LacksNonEmpty(config, key) == key \notin DOMAIN config \/ config[key] = ""

\* C18: constructing a provider whose config lacks a non-empty api_key or a
\* non-empty base_url raises ValueError at construction and leaves no ready
\* instance; the simulation adapter accepts any config, and a provider given
\* both values becomes ready.
C18_ConstructionFailsFast ==
    alast.op = "construct"
    => IF /\ alast.cls # "MockCourier"
          /\ LacksNonEmpty(alast.config, "api_key")
             \/ LacksNonEmpty(alast.config, "base_url")
       THEN /\ alast.outcome = "raise"
            /\ alast.exc = "ValueError"
            /\ ~courier.is_initialized
       ELSE /\ alast.outcome = "return"
            /\ courier.is_initialized
            /\ courier.cls = alast.cls
            /\ courier.config = alast.config

C18_Witness ==
    /\ alast.op = "construct"
    /\ alast.cls = "SMSACourier"
    /\ alast.config = CfgEmptyUrl
    /\ alast.outcome = "raise"
    /\ ~courier.is_initialized

\* C19: an object is ready only after a successful construction, and each of
\* create_shipment, track_shipment, cancel_shipment and print_label called on
\* an object that is not ready raises the initialization error and sends
\* nothing.
C19_NotReadyGuard ==
    /\ courier.is_initialized => _validate_config(courier.cls, courier.config) = NoErr
    /\ (/\ alast.op \in {"create_shipment", "track_shipment", "cancel_shipment",
                         "print_label"}
        /\ ~alast.ready)
       => /\ alast.outcome = "raise"
          /\ alast.exc = "RuntimeError"
          /\ ~alast.io

(***************************************************************************)
(* Claims about the transport.                                             *)
(***************************************************************************)
\* C20: a request through HTTPClient, with any verb it exposes, to an endpoint
\* that answers 502 to the first two attempts and 200 to the third ends with
\* one terminal outcome, the 200 response, after three attempts.
C20_RetryUntilSuccess ==
    (/\ http.pc = "done"
     /\ http.script = <<Status(502), Status(502), Status(200)>>)
    => /\ http.outcome = HttpReturns(200)
       /\ http.sent = 3

\* every attempt the request made met a failure at the endpoint
AttemptsFailed ==
    \A i \in 1..http.sent :
        ReplyTo(http.script, i).kind # "status" \/ ReplyTo(http.script, i).status >= 400

\* what SMSACourier.create_shipment makes of the transport's terminal outcome
CreateAfter(outcome, body) ==
    SmsaCreateResult(IF outcome.kind = "exception" THEN PostRaises(outcome.exc)
                     ELSE PostReturns(outcome.status, body))

\* C21: a transport call makes at most retries + 1 attempts; against an
\* endpoint that fails on every attempt it ends in one terminal transport
\* error (an exception or an error-status response), which create_shipment
\* turns into exactly one failure response; and every call terminates.
C21_RetriesBoundedAndTerminal ==
    /\ [](http.sent <= retries + 1)
    /\ []((http.pc = "done" /\ AttemptsFailed)
          => /\ \/ http.outcome.kind = "exception"
                \/ http.outcome.kind = "response" /\ http.outcome.status >= 400
             /\ \A b \in Bodies :
                   /\ CreateAfter(http.outcome, b).outcome = "return"
                   /\ ~CreateAfter(http.outcome, b).resp.success
                   /\ Len(CreateAfter(http.outcome, b).resp.errors) = 1)
    /\ (http.pc = "sending" ~> http.pc = "done")

C21_Witness ==
    /\ http.pc = "done"
    /\ http.method = "GET"
    /\ AttemptsFailed
    /\ http.sent = retries + 1
    /\ http.outcome = HttpRaises("RetryError")

(***************************************************************************)
(* Claims about the SMSA adapter's reading of replies.                     *)
(***************************************************************************)
\* the text of the first element of doc whose tag ends with addShipPDFResult,
\* None when there is no such element or it has no text
RemoteResultText(doc) ==
    LET hits == {i \in DOMAIN doc : EndsWith(doc[i].tag, "addShipPDFResult")}
    IN  IF hits = {} THEN None
        ELSE doc[CHOOSE i \in hits : \A j \in hits : i <= j].text

\* C22: create_shipment of the SMSA adapter finds the result element by the
\* suffix addShipPDFResult of its tag, whatever the namespace; a missing, empty
\* or "Failed"-containing result gives success = false with errors[0]
\* containing "SMSA API Error" and the result text, and any other result text
\* is the waybill of a success = true response.
C22_ResultBySuffix ==
    pure.op = "create_result"
    => LET text == RemoteResultText(pure.doc)
       IN  /\ pure.res.outcome = "return"
           /\ IF text = None \/ text = Text("") \/ StrIn("Failed", text[1])
              THEN /\ ~pure.res.resp.success
                   /\ Len(pure.res.resp.errors) = 1
                   /\ StrIn("SMSA API Error", pure.res.resp.errors[1])
                   /\ StrIn(IF text = None THEN "None" ELSE text[1],
                            pure.res.resp.errors[1])
              ELSE /\ pure.res.resp.success
                   /\ pure.res.resp.waybill_number = text[1]

C22_Witness ==
    /\ pure.op = "create_result"
    /\ pure.doc = Envelope \o
           <<Element("{http://track.smsaexpress.com/secom/}addShipPDFResult",
                     Text("SMSA123456"))>>
    /\ pure.res.resp.success
    /\ pure.res.resp.waybill_number = "SMSA123456"

\* C23: track_shipment of the SMSA adapter answers a synthetic success whenever
\* the HTTP call completes without raising: success = true, the waybill echoed,
\* status IN_TRANSIT and no events, whatever the reply's status code and body.
C23_TrackSynthetic ==
    (alast.op = "track_shipment" /\ alast.io /\ alast.remote.kind = "response")
    => /\ alast.outcome = "return"
       /\ alast.resp.success
       /\ alast.resp.waybill_number = alast.waybill
       /\ alast.resp.status = "IN_TRANSIT"
       /\ alast.resp.events = <<>>

C23_Witness ==
    /\ alast.op = "track_shipment" /\ alast.io
    /\ alast.remote.kind = "response" /\ alast.remote.status = 500
    /\ alast.remote.body = Malformed
    /\ alast.resp.success /\ alast.resp.status = "IN_TRANSIT"

(***************************************************************************)
(* Claims about the simulation adapter's store.                            *)
(***************************************************************************)
\* C25: track_shipment of the simulation adapter for a waybill that is not in
\* the store answers success = true with status IN_TRANSIT and exactly the
\* three events CREATED, PICKED_UP, IN_TRANSIT with ascending timestamps, and
\* leaves the store as it was.
C25_TrackUnknownSynthetic ==
    [][(/\ mpc[1] = "idle" /\ mpc'[1] = "idle"
        /\ mlast'[1].op = "track"
        /\ mlast'[1].waybill \notin DOMAIN shipments)
       => LET resp == mlast'[1].resp
          IN  /\ resp.success
              /\ resp.waybill_number = mlast'[1].waybill
              /\ resp.status = "IN_TRANSIT"
              /\ Len(resp.events) = 3
              /\ resp.events[1].status = "CREATED"
              /\ resp.events[2].status = "PICKED_UP"
              /\ resp.events[3].status = "IN_TRANSIT"
              /\ resp.events[1].timestamp < resp.events[2].timestamp
              /\ resp.events[2].timestamp < resp.events[3].timestamp
              /\ shipments' = shipments
              /\ objs' = objs]_vars

C25_Witness ==
    /\ mpc[1] = "idle"
    /\ mlast[1].op = "track" /\ ~mlast[1].known
    /\ mlast[1].waybill \notin DOMAIN shipments
    /\ DOMAIN shipments # {}
    /\ Len(mlast[1].resp.events) = 3

StoredEvents(store, heap, waybill) == heap[store[waybill]].events

IsPrefix(s, t) == Len(s) <= Len(t) /\ SubSeq(t, 1, Len(s)) = s

\* between calls every stored shipment has events, the first of them CREATED,
\* and the status of the last of them
StoreConsistent ==
    mpc[1] = "idle"
    => \A w \in DOMAIN shipments :
          LET o == objs[shipments[w]]
          IN  /\ o.events # <<>>
              /\ o.events[1].status = "CREATED"
              /\ o.status = o.events[Len(o.events)].status

\* a step keeps every stored shipment and what is recorded of it
EventsOnlyAppended ==
    \A w \in DOMAIN shipments :
        /\ w \in DOMAIN shipments'
        /\ IsPrefix(StoredEvents(shipments, objs, w), StoredEvents(shipments', objs', w))

\* a step of track_shipment or print_label leaves the store alone
ReadOnlyCalls ==
    (\/ mpc'[1] \in {"events", "status"}
     \/ mpc[1] = "idle" /\ mpc'[1] = "idle" /\ mlast'[1] # mlast[1]
        /\ mlast'[1].op \in {"track", "print_label"})
    => shipments' = shipments /\ objs' = objs

\* C26: after any sequence of create_shipment, track_shipment, cancel_shipment
\* and print_label calls made one at a time, every stored shipment has a
\* non-empty event list that only grows by appending, its first event is
\* CREATED and its status is the status of its last event; track_shipment and
\* print_label never modify the store.
C26_StoreConsistency ==
    /\ []StoreConsistent
    /\ [][EventsOnlyAppended]_vars
    /\ [][ReadOnlyCalls]_vars

\* the parts of C26 that hold
C26_ConsistentAndReadOnly ==
    /\ []StoreConsistent
    /\ [][ReadOnlyCalls]_vars

(***************************************************************************)
(* Claims about the registry and the instance cache.                       *)
(***************************************************************************)
IsUpperCased(s) ==
    \A i \in DOMAIN s : \A j \in DOMAIN LowerLetters : s[i] # LowerLetters[j]

CacheKeysRegistered ==
    \A i \in DOMAIN instances :
        /\ IsUpperCased(instances[i].key)
        /\ \E j \in DOMAIN registry : registry[j].key = instances[i].key

FailedGetKeepsCache ==
    (/\ fpc'[1] = "idle"
     /\ flast'[1].op = "get_courier"
     /\ flast'[1].outcome = "raise")
    => instances' = instances

\* C28: after any sequence of register and get_courier calls, successful or
\* failing, every key of the instance cache is an upper-cased identifier that
\* is also a key of the type registry, and a failing get_courier leaves the
\* cache entry that existed before the call in place.
C28_CacheConsistent ==
    /\ []CacheKeysRegistered
    /\ [][FailedGetKeepsCache]_vars

C28_Witness ==
    /\ fpc[1] = "idle"
    /\ DictHas(instances, ARAMEX)
    /\ flast[1].op = "get_courier" /\ flast[1].provider = aramex
    /\ flast[1].outcome = "raise"

\* C29: after register(id, cls), get_courier(id) with no config returns an
\* instance of cls, whatever the registry and the instance cache held before,
\* in particular when id was registered with another class and an instance of
\* that class is cached.
C29_GetAfterRegister ==
    [][(/\ flast[1].op = "register"
        /\ fpc'[1] = "idle"
        /\ flast'[1].op = "get_courier"
        /\ flast'[1].config = NoConfig
        /\ flast'[1].provider = flast[1].provider)
       => /\ flast'[1].outcome = "return"
          /\ flast'[1].inst.cls = flast[1].cls]_vars

(***************************************************************************)
(* Claims about the service layer.                                         *)
(***************************************************************************)
\* C24: ShipmentService.cancel_shipment on a persisted shipment whose provider
\* supports cancellation: when the courier answers success = true the row's
\* status becomes CANCELLED and one CANCELLED tracking event is recorded;
\* when it answers success = false the row and its events are unchanged.
C24_CancelPersistsOnSuccessOnly ==
    [][(/\ svc'.n = svc.n + 1
        /\ svc'.op = "cancel_shipment"
        /\ svc'.outcome = "return")
       => LET w == svc'.waybill
          IN  /\ w \in DOMAIN db
              /\ DOMAIN db' = DOMAIN db
              /\ \A v \in DOMAIN db \ {w} : db'[v] = db[v]
              /\ IF svc'.success
                 THEN /\ db'[w].status = "CANCELLED"
                      /\ Len(db'[w].events) = Len(db[w].events) + 1
                      /\ SubSeq(db'[w].events, 1, Len(db[w].events)) = db[w].events
                      /\ db'[w].events[Len(db'[w].events)].status = "CANCELLED"
                 ELSE db'[w] = db[w]]_vars

C24_Witness ==
    /\ svc.op = "cancel_shipment" /\ svc.outcome = "return" /\ svc.success
    /\ svc.waybill \in DOMAIN db
    /\ db[svc.waybill].courier_provider = SMSA
    /\ db[svc.waybill].status = "CANCELLED"
    /\ Len(db[svc.waybill].events) = 2

\* C27: the simulation adapter's store outlives an adapter instance: a shipment
\* created through one MockCourier instance is tracked as its stored state,
\* not as the made-up history of an unknown waybill, through any other
\* instance, the one get_courier("MOCK", config) puts in place of the cached
\* one included.
C27_StoreOutlivesInstance ==
    [][\A t \in Threads, u \in Threads :
          (/\ mlast[u].op = "create" /\ mlast[u].resp.success
           /\ mpc'[t] = "idle"
           /\ mlast'[t] # mlast[t]
           /\ mlast'[t].op = "track"
           /\ mlast'[t].waybill = mlast[u].resp.waybill_number
           /\ mlast'[t].self # mlast[u].self)
          => /\ mlast'[t].known
             /\ mlast'[t].waybill \in DOMAIN shipments
             /\ mlast'[t].resp.status = objs[shipments[mlast'[t].waybill]].status
             /\ mlast'[t].resp.events =
                    TrackingEvents(objs[shipments[mlast'[t].waybill]].events)]_vars

C27_Witness ==
    /\ \A t \in Threads : mpc[t] = "idle"
    /\ mlast[1].op = "create" /\ mlast[1].resp.success /\ mlast[1].self = 1
    /\ mlast[2].op = "track" /\ mlast[2].known /\ mlast[2].self = 2
    /\ mlast[2].waybill = mlast[1].resp.waybill_number
    /\ DictGet(instances, MOCK).id = 2
    /\ flast[2].constructed /\ flast[2].config = Some(CfgFull)
    /\ mlast[2].resp.status = "CREATED" /\ Len(mlast[2].resp.events) = 1

(***************************************************************************)
(* Claims about the message broker.                                        *)
(***************************************************************************)
\* the tasks called so far are the first ones enqueued, each once, in order
ExecutedInOrder ==
    /\ Len(broker.executed) <= Len(broker.enqueued)
    /\ broker.executed = SubSeq(broker.enqueued, 1, Len(broker.executed))

\* every task that raised was logged
RaisingLogged ==
    \A i \in DOMAIN broker.executed :
        broker.executed[i].kind # "returns"
        => \E j \in DOMAIN broker.logged : broker.logged[j] = broker.executed[i]

ExitEnqueued == \E i \in DOMAIN broker.enqueued : broker.enqueued[i].kind = "exits"

\* C30: the broker executes every enqueued task exactly once and in enqueue
\* order, also when enqueue is called from other threads while the worker is
\* running; a task that raises is logged and does not stop the worker, so
\* every task enqueued after it is still eventually executed.
C30_EveryTaskExecutedInOrder ==
    /\ []ExecutedInOrder
    /\ []RaisingLogged
    /\ \A i \in 1..MaxWork :
          (Len(broker.enqueued) >= i) ~> (Len(broker.executed) >= i)

\* what holds of C30: order and single execution always, logging and
\* progress as long as no task raised outside Exception
C30_HoldsForExceptions ==
    /\ []ExecutedInOrder
    /\ [](~ExitEnqueued => RaisingLogged)
    /\ \A i \in 1..MaxWork :
          (Len(broker.enqueued) >= i) ~> (Len(broker.executed) >= i \/ ExitEnqueued)

====
